---- MODULE Spec2Model ----
(***************************************************************************)
(* Top-items reconciliation pipeline of the Spotify themes analyser API:   *)
(* TopItemsProcessor (position-change engine, enrichment, orchestrator)    *)
(* together with the collaborators it calls.                               *)
(***************************************************************************)
EXTENDS Integers, Sequences, FiniteSets, TLC

\* ------------------------------------------------------------------ bounds
MaxLen == 3
MaxMetric == 3
Ids == {"A", "B", "C"}
Metrics == 1..MaxMetric

\* ------------------------------------------------------------- enumerations
ARTIST == "artist"
TRACK == "track"
GENRE == "genre"
EMOTION == "emotion"
TopItemType == {ARTIST, TRACK, GENRE, EMOTION}

UP == "up"
DOWN == "down"
NEW_ == "new"
None == "null"
PositionChange == {UP, DOWN, NEW_, None}

\* a float cell of a data frame: NaN, or a number
NaN == [isnan |-> TRUE]
Float(v) == [isnan |-> FALSE, value |-> v]

\* ------------------------------------------------------------ data models
DBArtist(id, m) == [artist_id |-> id, position |-> m]
DBTrack(id, m) == [track_id |-> id, position |-> m]
DBGenre(id, m) == [genre_name |-> id, count |-> m]
DBEmotion(id, m) == [emotion_name |-> id, percentage |-> m, track_id |-> "T"]

DBRow(item_type, id, m) ==
    CASE item_type = ARTIST -> DBArtist(id, m)
      [] item_type = TRACK -> DBTrack(id, m)
      [] item_type = GENRE -> DBGenre(id, m)
      [] item_type = EMOTION -> DBEmotion(id, m)

SpotifyItem(id) == [id |-> id, name |-> "name_" \o id]

\* ----------------------------------------------------- sequence utilities
SeqsUpTo(S, n) == UNION {[1..k -> S] : k \in 0..n}
Range(s) == {s[i] : i \in DOMAIN s}
IsInjective(s) == \A i, j \in DOMAIN s : s[i] = s[j] => i = j
Column(rows, c) == [i \in DOMAIN rows |-> rows[i][c]]
Take(s, n) == IF Len(s) <= n THEN s ELSE SubSeq(s, 1, n)

RECURSIVE InsertAsc(_, _, _)
InsertAsc(sorted, row, key) ==
    IF sorted = <<>> THEN <<row>>
    ELSE IF row[key] < sorted[Len(sorted)][key]
         THEN Append(InsertAsc(SubSeq(sorted, 1, Len(sorted) - 1), row, key), sorted[Len(sorted)])
         ELSE Append(sorted, row)

\* list.sort(key=..., reverse=False): stable, ascending
RECURSIVE SortAsc(_, _)
SortAsc(rows, key) ==
    IF rows = <<>> THEN <<>>
    ELSE InsertAsc(SortAsc(SubSeq(rows, 1, Len(rows) - 1), key), rows[Len(rows)], key)

RECURSIVE InsertDesc(_, _, _)
InsertDesc(sorted, row, key) ==
    IF sorted = <<>> THEN <<row>>
    ELSE IF row[key] > sorted[Len(sorted)][key]
         THEN Append(InsertDesc(SubSeq(sorted, 1, Len(sorted) - 1), row, key), sorted[Len(sorted)])
         ELSE Append(sorted, row)

\* DataFrame.sort_values(by=key, ascending=False): descending, ties in frame order
RECURSIVE SortValuesDesc(_, _)
SortValuesDesc(rows, key) ==
    IF rows = <<>> THEN <<>>
    ELSE InsertDesc(SortValuesDesc(SubSeq(rows, 1, Len(rows) - 1), key), rows[Len(rows)], key)

IsAscending(rows, key) == \A i, j \in DOMAIN rows : i < j => rows[i][key] <= rows[j][key]
IsDescending(rows, key) == \A i, j \in DOMAIN rows : i < j => rows[i][key] >= rows[j][key]

\* ------------------------------------------------- position-change engine
\* the missing value read as zero
Minus_fillna(a, b) == IF a.isnan THEN Float(0 - b) ELSE Float(a.value - b)

Minus(a, b) == IF a.isnan THEN NaN ELSE Float(a.value - b)

\* the two signs exchanged
_format_position_change_inverted(v) ==
    IF ~v.isnan /\ v.value < 0 THEN UP
    ELSE IF ~v.isnan /\ v.value > 0 THEN DOWN
    ELSE IF ~v.isnan /\ v.value = 0 THEN None
    ELSE NEW_

_format_position_change(v) ==
    IF ~v.isnan /\ v.value < 0 THEN DOWN
    ELSE IF ~v.isnan /\ v.value > 0 THEN UP
    ELSE IF ~v.isnan /\ v.value = 0 THEN None
    ELSE NEW_

Frame(status, rows) == [status |-> status, rows |-> rows]
Columns(rows) == IF rows = <<>> THEN {} ELSE DOMAIN rows[1]
Prev(c) == c \o "_prev"

\* one row of the left merge: the latest row, and the other columns of the
\* matching previous row (or NaN) under the "_prev" suffix
MergedRow(l, matches, k, on, right_columns) ==
    l @@ [pc \in {Prev(c) : c \in right_columns \ {on}} |->
            LET c == CHOOSE c \in right_columns \ {on} : Prev(c) = pc
            IN  IF matches = <<>> THEN NaN ELSE Float(matches[k][c])]

RECURSIVE Flatten(_)
Flatten(ss) == IF ss = <<>> THEN <<>> ELSE Head(ss) \o Flatten(Tail(ss))

\* how="inner": a latest row without a match is dropped
MergeInner(df_latest, df_previous, on) ==
    IF on \notin Columns(df_latest) \/ on \notin Columns(df_previous)
    THEN Frame("KeyError", <<>>)
    ELSE Frame("ok", Flatten([i \in DOMAIN df_latest |->
            LET l == df_latest[i]
                matches == SelectSeq(df_previous, LAMBDA r : r[on] = l[on])
            IN  [k \in DOMAIN matches |-> MergedRow(l, matches, k, on, Columns(df_previous))]]))

\* df_latest.merge(right=df_previous, how="left", on=on, suffixes=("", "_prev"))
MergeLeft(df_latest, df_previous, on) ==
    IF on \notin Columns(df_latest) \/ on \notin Columns(df_previous)
    THEN Frame("KeyError", <<>>)
    ELSE Frame("ok", Flatten([i \in DOMAIN df_latest |->
            LET l == df_latest[i]
                matches == SelectSeq(df_previous, LAMBDA r : r[on] = l[on])
            IN  IF matches = <<>>
                THEN <<MergedRow(l, matches, 0, on, Columns(df_previous))>>
                ELSE [k \in DOMAIN matches |-> MergedRow(l, matches, k, on, Columns(df_previous))]]))

\* latest - previous
position_change_value_reversed(row, comparison_field) ==
    IF row[Prev(comparison_field)].isnan THEN NaN
    ELSE Float(row[comparison_field] - row[Prev(comparison_field)].value)

\* merged_df[f"{comparison_field}_prev"] - merged_df[comparison_field], for one row
position_change_value(row, comparison_field) ==
    Minus(row[Prev(comparison_field)], row[comparison_field])

_add_position_changes_to_db_data(top_items_latest, top_items_previous, item_type, comparison_field, id_key) ==
    LET merged_df == MergeLeft(top_items_latest, top_items_previous, item_type \o "_" \o id_key)
    IN  IF merged_df.status # "ok" THEN merged_df
        ELSE IF Prev(comparison_field) \notin Columns(merged_df.rows)
                \/ comparison_field \notin Columns(merged_df.rows)
        THEN Frame("KeyError", <<>>)
        ELSE Frame("ok", SortValuesDesc(
                [i \in DOMAIN merged_df.rows |->
                    [position_change |-> _format_position_change(
                        position_change_value(merged_df.rows[i], comparison_field))]
                    @@ merged_df.rows[i]],
                comparison_field))

\* --------------------------------------------------- upstream catalog client
Result(status, items) == [status |-> status, items |-> items]

get_top_items_parameters == {"access_token", "item_type", "time_range", "limit"}

\* SpotifyDataService.get_top_items: every parameter is required, so the call
\* binds only when exactly these keywords are passed; the POST returns `data`
SpotifyDataService_get_top_items(keywords, data) ==
    IF keywords # get_top_items_parameters THEN Result("TypeError", <<>>)
    ELSE Result("ok", [i \in DOMAIN data |-> SpotifyItem(data[i])])

\* SpotifyDataService.get_several_items_by_ids: `data` is what the POST returns
get_several_items_by_ids(item_type, data) ==
    IF data.status # "ok" THEN data
    ELSE IF item_type \in {ARTIST, TRACK}
         THEN Result("ok", [i \in DOMAIN data.items |-> SpotifyItem(data.items[i])])
         ELSE Result("ValueError", <<>>)

\* what the batched endpoint may answer: a failure, or records for any
\* distinct identifiers in any order
UpstreamAnswers ==
    {Result("UpstreamRequestError", <<>>)}
    \cup {Result("ok", s) : s \in {q \in SeqsUpTo(Ids, MaxLen) : IsInjective(q)}}

\* ------------------------------------------------------------- enrichment
ItemIds_first_only(db_data, item_type) == Take(Column(db_data, item_type \o "_id"), 1)

ItemIds(db_data, item_type) == Column(db_data, item_type \o "_id")

Last(db_data, col, id) ==
    db_data[CHOOSE i \in DOMAIN db_data :
                /\ db_data[i][col] = id
                /\ \A j \in DOMAIN db_data : db_data[j][col] = id => j <= i]

\* the records left in the order the fetch returned them
_enrich_db_data_unsorted(db_data, item_type, spotify_items) ==
    IF spotify_items.status # "ok" THEN Frame(spotify_items.status, <<>>)
    ELSE IF \E i \in DOMAIN spotify_items.items :
                spotify_items.items[i].id \notin Range(ItemIds(db_data, item_type))
    THEN Frame("KeyError", <<>>)
    ELSE Frame("ok", [i \in DOMAIN spotify_items.items |->
                Last(db_data, item_type \o "_id", spotify_items.items[i].id)
                @@ spotify_items.items[i]])

_enrich_db_data_with_spotify_data(db_data, item_type, spotify_items) ==
    IF spotify_items.status # "ok" THEN Frame(spotify_items.status, <<>>)
    ELSE IF \E i \in DOMAIN spotify_items.items :
                spotify_items.items[i].id \notin Range(ItemIds(db_data, item_type))
    THEN Frame("KeyError", <<>>)
    ELSE IF spotify_items.items # <<>> /\ "position" \notin Columns(db_data)
    THEN Frame("KeyError", <<>>)
    ELSE Frame("ok", SortAsc(
            [i \in DOMAIN spotify_items.items |->
                Last(db_data, item_type \o "_id", spotify_items.items[i].id)
                @@ spotify_items.items[i]],
            "position"))

\* ------------------------------------------------------- response models
TopItemFields(item_type) ==
    CASE item_type = ARTIST -> {"id", "name", "position", "position_change"}
      [] item_type = TRACK -> {"id", "name", "position", "position_change"}
      [] item_type = GENRE -> {"genre_name", "count", "position_change"}
      [] item_type = EMOTION -> {"emotion_name", "percentage", "track_id", "position_change"}

\* builds one response model per entry; an entry without a classification
\* gets position_change null
create_top_items_from_data(data, item_type) ==
    IF \E i \in DOMAIN data : ~(TopItemFields(item_type) \ {"position_change"} \subseteq DOMAIN data[i])
    THEN Result("ValidationError", <<>>)
    ELSE Result("ok", [i \in DOMAIN data |->
            [f \in TopItemFields(item_type) |->
                IF f \in DOMAIN data[i] THEN data[i][f] ELSE None]])

\* ---------------------------------------------------------- snapshot store
Limit == 50

Rows(item_type) == {DBRow(item_type, id, m) : id \in Ids, m \in Metrics}

IdOf(row, item_type) ==
    IF item_type \in {ARTIST, TRACK} THEN row[item_type \o "_id"] ELSE row[item_type \o "_name"]

MetricField(item_type) ==
    CASE item_type \in {ARTIST, TRACK} -> "position"
      [] item_type = GENRE -> "count"
      [] item_type = EMOTION -> "percentage"

\* the rows one (user, time range, collected date) can hold: one row per
\* identifier, and one artist or track per position
Snapshots(item_type) ==
    {S \in SUBSET Rows(item_type) :
        /\ Cardinality(S) <= MaxLen
        /\ \A r1, r2 \in S : IdOf(r1, item_type) = IdOf(r2, item_type) => r1 = r2
        /\ item_type \in {ARTIST, TRACK} => \A r1, r2 \in S : r1.position = r2.position => r1 = r2}

\* the rows a collected date can hold when nothing keeps identifiers unique
SnapshotsWithRepeats(item_type) ==
    {S \in SUBSET Rows(item_type) :
        /\ Cardinality(S) <= MaxLen
        /\ item_type \in {ARTIST, TRACK} => \A r1, r2 \in S : r1.position = r2.position => r1 = r2}

\* SELECT ... ORDER BY order_field order_direction LIMIT limit
DBService_get_top_items(table, order_field, order_direction, limit) ==
    {Take(s, limit) : s \in {q \in [1..Cardinality(table) -> table] :
        /\ Range(q) = table
        /\ IF order_direction = "ASC" THEN IsAscending(q, order_field) ELSE IsDescending(q, order_field)}}

\* ------------------------------------------------------------ /me routes
\* the order an outer merge leaves its join keys in: sorted lexicographically
KeyOrder == <<"A", "B", "C">>

\* one row of the outer merge: every column but the key is a float cell, NaN
\* on the side that has no row for the key
OuterRow(key, ls, i, rs, j, on, left_columns, right_columns) ==
    [c \in {on} |-> key]
    @@ [c \in left_columns \ {on} |-> IF ls = <<>> THEN NaN ELSE Float(ls[i][c])]
    @@ [pc \in {Prev(c) : c \in right_columns \ {on}} |->
            LET c == CHOOSE c \in right_columns \ {on} : Prev(c) = pc
            IN  IF rs = <<>> THEN NaN ELSE Float(rs[j][c])]

\* df_latest.merge(right=df_previous, how="outer", on=on, suffixes=("", "_prev"))
MergeOuter(df_latest, df_previous, on) ==
    IF on \notin Columns(df_latest) \/ on \notin Columns(df_previous)
    THEN Frame("KeyError", <<>>)
    ELSE Frame("ok", Flatten([k \in DOMAIN KeyOrder |->
            LET ls == SelectSeq(df_latest, LAMBDA r : r[on] = KeyOrder[k])
                rs == SelectSeq(df_previous, LAMBDA r : r[on] = KeyOrder[k])
                Row(i, j) == OuterRow(KeyOrder[k], ls, i, rs, j, on, Columns(df_latest), Columns(df_previous))
            IN  IF ls = <<>> /\ rs = <<>> THEN <<>>
                ELSE IF rs = <<>> THEN [i \in DOMAIN ls |-> Row(i, 0)]
                ELSE IF ls = <<>> THEN [j \in DOMAIN rs |-> Row(0, j)]
                ELSE Flatten([i \in DOMAIN ls |-> [j \in DOMAIN rs |-> Row(i, j)]])]))

\* subtraction of two float columns, for one row
MinusFloat(a, b) == IF a.isnan \/ b.isnan THEN NaN ELSE Float(a.value - b.value)

RECURSIVE InsertDescFloat(_, _, _)
InsertDescFloat(sorted, row, key) ==
    IF sorted = <<>> THEN <<row>>
    ELSE IF row[key].value > sorted[Len(sorted)][key].value
         THEN Append(InsertDescFloat(SubSeq(sorted, 1, Len(sorted) - 1), row, key), sorted[Len(sorted)])
         ELSE Append(sorted, row)

RECURSIVE SortNumbersDesc(_, _)
SortNumbersDesc(rows, key) ==
    IF rows = <<>> THEN <<>>
    ELSE InsertDescFloat(SortNumbersDesc(SubSeq(rows, 1, Len(rows) - 1), key), rows[Len(rows)], key)

\* DataFrame.sort_values(by=key, ascending=False) on a float column: descending,
\* the rows whose key is NaN last
SortFloatDesc(rows, key) ==
    SortNumbersDesc(SelectSeq(rows, LAMBDA r : ~r[key].isnan), key)
    \o SelectSeq(rows, LAMBDA r : r[key].isnan)

calculate_position_changes(top_items_latest, top_items_previous, item_type, comparison_field, id_key) ==
    LET merged_df == MergeOuter(top_items_latest, top_items_previous, item_type \o "_" \o id_key)
    IN  IF merged_df.status # "ok" THEN merged_df
        ELSE IF Prev(comparison_field) \notin Columns(merged_df.rows)
                \/ comparison_field \notin Columns(merged_df.rows)
        THEN Frame("KeyError", <<>>)
        ELSE Frame("ok", SortFloatDesc(
                [i \in DOMAIN merged_df.rows |->
                    [position_change |-> MinusFloat(merged_df.rows[i][Prev(comparison_field)],
                                                    merged_df.rows[i][comparison_field])]
                    @@ merged_df.rows[i]],
                comparison_field))

format_position_change(position_change_value_) ==
    IF ~position_change_value_.isnan /\ position_change_value_.value < 0 THEN DOWN
    ELSE IF ~position_change_value_.isnan /\ position_change_value_.value > 0 THEN UP
    ELSE IF ~position_change_value_.isnan /\ position_change_value_.value = 0 THEN None
    ELSE NEW_

\* the per-type snapshot readers
DBService_get_top_artists(table, limit) == DBService_get_top_items(table, "position", "ASC", limit)
DBService_get_top_tracks(table, limit) == DBService_get_top_items(table, "position", "ASC", limit)
DBService_get_top_genres(table, limit) == DBService_get_top_items(table, "count", "DESC", limit)
\* ORDER BY count on a column the DBEmotion rows do not carry: any order of the rows
DBService_get_top_emotions(table, limit) ==
    {Take(q, limit) : q \in {q \in [1..Cardinality(table) -> table] : Range(q) = table}}

DBService_read(table, item_type, limit) ==
    CASE item_type = ARTIST -> DBService_get_top_artists(table, limit)
      [] item_type = TRACK -> DBService_get_top_tracks(table, limit)
      [] item_type = GENRE -> DBService_get_top_genres(table, limit)
      [] item_type = EMOTION -> DBService_get_top_emotions(table, limit)

\* the identifier lists the upstream service may answer a batched fetch or a
\* default top-list request with
UpstreamLists == {q \in SeqsUpTo(Ids, MaxLen) : IsInjective(q)}

\* a /me/top route with no latest snapshot answers with the upstream top list;
\* an artist or track is built from its metadata and its index alone, without
\* the model's required position_change
me_default_items(spotify_items, item_type) ==
    IF spotify_items.status # "ok" THEN Result(spotify_items.status, <<>>)
    ELSE IF spotify_items.items = <<>> THEN Result("ok", <<>>)
    ELSE IF item_type \in {ARTIST, TRACK} THEN Result("ValidationError", <<>>)
    ELSE Result("ok", [i \in DOMAIN spotify_items.items |->
            spotify_items.items[i] @@ [position_change |-> None]])

\* /me/top/artists and /me/top/tracks with no previous snapshot: each fetched
\* record is turned into a TopArtist or TopTrack from its metadata and its
\* position alone, and the model's required position_change is not given
me_latest_only_items(db_top_items_latest_, item_type, spotify_items) ==
    LET id_column == item_type \o "_id"
    IN  IF spotify_items.status # "ok" THEN Result(spotify_items.status, <<>>)
        ELSE IF spotify_items.items = <<>> THEN Result("ok", <<>>)
        ELSE IF spotify_items.items[1].id \notin Range(Column(db_top_items_latest_, id_column))
        THEN Result("KeyError", <<>>)
        ELSE Result("ValidationError", <<>>)

\* /me/top/artists and /me/top/tracks with both snapshots
me_reconciled_items(items_with_position_changes, item_type, spotify_items) ==
    LET id_column == item_type \o "_id"
        rows == items_with_position_changes.rows
        position_data(id) == Last(rows, id_column, id)
    IN  IF items_with_position_changes.status # "ok"
        THEN Result(items_with_position_changes.status, <<>>)
        ELSE IF spotify_items.status # "ok" THEN Result(spotify_items.status, <<>>)
        ELSE IF \E i \in DOMAIN spotify_items.items :
                    spotify_items.items[i].id \notin Range(Column(rows, id_column))
        THEN Result("KeyError", <<>>)
        ELSE IF \E i \in DOMAIN spotify_items.items : position_data(spotify_items.items[i].id).position.isnan
        THEN Result("ValidationError", <<>>)
        ELSE Result("ok", [i \in DOMAIN spotify_items.items |->
                spotify_items.items[i]
                @@ [position |-> position_data(spotify_items.items[i].id).position.value,
                    position_change |->
                        format_position_change(position_data(spotify_items.items[i].id).position_change)]])

\* /me/top/genres and /me/top/emotions with no previous snapshot
me_latest_only_rows(db_top_items_latest_) ==
    Result("ok", [i \in DOMAIN db_top_items_latest_ |->
            db_top_items_latest_[i] @@ [position_change |-> None]])

\* /me/top/genres with both snapshots: count is an int field
me_reconciled_genres(genres_with_position_changes) ==
    LET rows == genres_with_position_changes.rows
    IN  IF genres_with_position_changes.status # "ok"
        THEN Result(genres_with_position_changes.status, <<>>)
        ELSE IF \E i \in DOMAIN rows : rows[i].count.isnan
        THEN Result("ValidationError", <<>>)
        ELSE Result("ok", [i \in DOMAIN rows |->
                [genre_name |-> rows[i].genre_name,
                 count |-> rows[i].count.value,
                 position_change |-> format_position_change(rows[i].position_change)]])

\* /me/top/emotions with both snapshots: track_id is a str field
me_reconciled_emotions(emotions_with_position_changes) ==
    LET rows == emotions_with_position_changes.rows
    IN  IF emotions_with_position_changes.status # "ok"
        THEN Result(emotions_with_position_changes.status, <<>>)
        ELSE IF \E i \in DOMAIN rows : rows[i].track_id.isnan
        THEN Result("ValidationError", <<>>)
        ELSE Result("ok", [i \in DOMAIN rows |->
                [emotion_name |-> rows[i].emotion_name,
                 percentage |-> rows[i].percentage.value,
                 track_id |-> rows[i].track_id.value,
                 position_change |-> format_position_change(rows[i].position_change)]])

me_get_top_artists ==
    [route |-> "/me/top/artists", item_type |-> ARTIST, comparison_field |-> "position", id_key |-> "id"]
me_get_top_tracks ==
    [route |-> "/me/top/tracks", item_type |-> TRACK, comparison_field |-> "position", id_key |-> "id"]
me_get_top_genres ==
    [route |-> "/me/top/genres", item_type |-> GENRE, comparison_field |-> "count", id_key |-> "name"]
me_get_top_emotions ==
    [route |-> "/me/top/emotions", item_type |-> EMOTION, comparison_field |-> "percentage", id_key |-> "name"]

MeRoutes == {me_get_top_artists, me_get_top_tracks, me_get_top_genres, me_get_top_emotions}

\* ------------------------------------------------------ public operations
\* enrichment switched off
get_top_artists_unenriched ==
    [item_type |-> ARTIST, order_by_field |-> "position", order_direction |-> "ASC",
     comparison_field |-> "position", id_key |-> "id", enrich_data |-> FALSE]

get_top_artists ==
    [item_type |-> ARTIST, order_by_field |-> "position", order_direction |-> "ASC",
     comparison_field |-> "position", id_key |-> "id", enrich_data |-> TRUE]

get_top_tracks ==
    [item_type |-> TRACK, order_by_field |-> "position", order_direction |-> "ASC",
     comparison_field |-> "position", id_key |-> "id", enrich_data |-> TRUE]

get_top_genres ==
    [item_type |-> GENRE, order_by_field |-> "count", order_direction |-> "DESC",
     comparison_field |-> "percentage", id_key |-> "name", enrich_data |-> FALSE]

get_top_emotions ==
    [item_type |-> EMOTION, order_by_field |-> "percentage", order_direction |-> "DESC",
     comparison_field |-> "percentage", id_key |-> "name", enrich_data |-> FALSE]

Operations == {get_top_artists, get_top_tracks, get_top_genres, get_top_emotions}


\* ------------------------------------------------------- collection window
\* get_collection_dates is called with update_hour=8, update_minute=30
UpdateHour == 8
UpdateMinute == 30

\* wall-clock datetimes of the Europe/London zone
Years == {2023, 2024}
Hours == {0, 7, 8, 9, 23}
MinutesOfHour == {0, 29, 30, 31, 59}

IsLeap(y) == (y % 4 = 0 /\ y % 100 # 0) \/ y % 400 = 0

DaysInMonth(y, m) ==
    IF m = 2 THEN (IF IsLeap(y) THEN 29 ELSE 28)
    ELSE IF m \in {4, 6, 9, 11} THEN 30 ELSE 31

datetime(y, mo, d, h, mi) == [year |-> y, month |-> mo, day |-> d, hour |-> h, minute |-> mi]

\* the instants datetime.now(uk_tz) can return
Instants ==
    {datetime(y, mo, d, h, mi) : y \in Years, mo \in 1..12, d \in 1..31, h \in Hours, mi \in MinutesOfHour}
        \ {t \in [year : Years, month : 1..12, day : 29..31, hour : Hours, minute : MinutesOfHour] :
                t.day > DaysInMonth(t.year, t.month)}

\* datetime.combine(dt.date(), time(hour, minute), tzinfo=uk_tz)
combine(dt, h, mi) == [dt EXCEPT !.hour = h, !.minute = mi]

\* a < b for two datetimes of the same zone
Earlier(a, b) ==
    \/ a.year < b.year
    \/ a.year = b.year /\ a.month < b.month
    \/ a.year = b.year /\ a.month = b.month /\ a.day < b.day
    \/ a.year = b.year /\ a.month = b.month /\ a.day = b.day /\ a.hour < b.hour
    \/ a.year = b.year /\ a.month = b.month /\ a.day = b.day /\ a.hour = b.hour /\ a.minute < b.minute

\* dt - timedelta(days=1): the same wall-clock time on the calendar day before
MinusOneDay(dt) ==
    IF dt.day > 1 THEN [dt EXCEPT !.day = dt.day - 1]
    ELSE IF dt.month > 1
         THEN [dt EXCEPT !.month = dt.month - 1, !.day = DaysInMonth(dt.year, dt.month - 1)]
         ELSE [dt EXCEPT !.year = dt.year - 1, !.month = 12, !.day = 31]

\* dt.strftime("%Y-%m-%d"): the time of day is dropped
strftime(dt) == [year |-> dt.year, month |-> dt.month, day |-> dt.day]

CollectionDates(latest, previous) == [latest |-> latest, previous |-> previous]

get_collection_dates_at_or_before(now_uk, update_hour, update_minute) ==
    LET update_time_uk == combine(now_uk, update_hour, update_minute)
        latest_date == IF ~Earlier(update_time_uk, now_uk) THEN MinusOneDay(now_uk) ELSE now_uk
        prev_date == MinusOneDay(latest_date)
    IN  CollectionDates(strftime(latest_date), strftime(prev_date))

get_collection_dates(now_uk, update_hour, update_minute) ==
    LET update_time_uk == combine(now_uk, update_hour, update_minute)
        latest_date == IF Earlier(now_uk, update_time_uk) THEN MinusOneDay(now_uk) ELSE now_uk
        prev_date == MinusOneDay(latest_date)
    IN  CollectionDates(strftime(latest_date), strftime(prev_date))

\* the calendar day after a date
NextDay(date) ==
    IF date.day < DaysInMonth(date.year, date.month) THEN [date EXCEPT !.day = date.day + 1]
    ELSE IF date.month < 12
         THEN [date EXCEPT !.month = date.month + 1, !.day = 1]
         ELSE [date EXCEPT !.year = date.year + 1, !.month = 1, !.day = 1]

\* ------------------------------------------------------------ memory store
SHORT == "short_term"
MEDIUM == "medium_term"
LONG == "long_term"
TopItemTimeRange == {SHORT, MEDIUM, LONG}

UserIds == {"u1", "u2"}

\* Time is counted in half-day slots since the epoch: slot 2d is day d before
\* the 08:30 Europe/London cutover, slot 2d+1 is day d from the cutover on.
MaxClock == 8
MaxStores == 2
\* a request can arrive before or after the cutover of its day
FirstSlots == {2, 3}
DayOf(t) == t \div 2
\* the cutover window an instant belongs to: it changes at every 08:30
WindowOf(t) == (t + 1) \div 2
\* datetime(year, month, day, 8, 30, 0, tzinfo=uk_tz).timestamp()
CutoverTimestamp(day) == 2 * day + 1

\* a key-value server with per-key expiry (redis)
Nil == [nil |-> TRUE]
NoExpiry == -1
RedisEntry(value, expire_at) == [value |-> value, expire_at |-> expire_at]

\* GET: an expired key reads as missing
redis_get(store, t, key) ==
    IF store[key] = Nil THEN Nil
    ELSE IF store[key].expire_at # NoExpiry /\ t >= store[key].expire_at THEN Nil
    ELSE store[key].value

\* SET without options: the value is replaced and any time to live is discarded
redis_set(store, key, value) == [store EXCEPT ![key] = RedisEntry(value, NoExpiry)]

\* EXPIRE: the key lives for `seconds` more, counted from the call
redis_expire(store, t, key, seconds) ==
    IF redis_get(store, t, key) = Nil THEN store
    ELSE [store EXCEPT ![key] = RedisEntry(store[key].value, t + seconds)]

json_dumps(obj) == [json |-> obj]
json_loads(raw) == raw.json

model_dump(item) == item

_get_user_top_items_key(user_id) == "top_items-" \o user_id

\* f"top_{item_type.value}s_{time_range.value}"
TopItemsField(item_type, time_range) == "top_" \o item_type \o "s_" \o time_range

RedisKeys == {_get_user_top_items_key(u) : u \in UserIds}

NoData == [found |-> FALSE]

_retrieve_all_top_items_data(store, t, user_id) ==
    LET all_top_items_raw == redis_get(store, t, _get_user_top_items_key(user_id))
    IN  IF all_top_items_raw # Nil
        THEN [found |-> TRUE, data |-> json_loads(all_top_items_raw)]
        ELSE NoData

SetItem_alone(dict, field, value) == [k \in {field} |-> value]

\* the dictionary with one entry replaced or added
SetItem(dict, field, value) ==
    [k \in DOMAIN dict \cup {field} |-> IF k = field THEN value ELSE dict[k]]

\* the time to live store_top_items hands to EXPIRE: int(expiry_date.timestamp()) of
\* 08:30 on the day after the call
expiry_seconds(t) == CutoverTimestamp(DayOf(t) + 1)

store_top_items(store, t, user_id, top_items_to_store, item_type, time_range) ==
    LET retrieved == _retrieve_all_top_items_data(store, t, user_id)
        is_new == ~retrieved.found \/ DOMAIN retrieved.data = {}
        all_top_items_data ==
            SetItem(IF is_new THEN <<>> ELSE retrieved.data,
                    TopItemsField(item_type, time_range),
                    [i \in DOMAIN top_items_to_store |-> model_dump(top_items_to_store[i])])
        top_items_key == _get_user_top_items_key(user_id)
        after_set == redis_set(store, top_items_key, json_dumps(all_top_items_data))
    IN  IF is_new
        THEN redis_expire(after_set, t, top_items_key, expiry_seconds(t))
        ELSE after_set

NoTopItems == [found |-> FALSE]

retrieve_top_items(store, t, user_id, item_type, time_range) ==
    LET all_top_items == _retrieve_all_top_items_data(store, t, user_id)
        field == TopItemsField(item_type, time_range)
    IN  IF all_top_items.found /\ DOMAIN all_top_items.data # {}
            /\ field \in DOMAIN all_top_items.data /\ all_top_items.data[field] # <<>>
        THEN [found |-> TRUE,
              items |-> create_top_items_from_data(all_top_items.data[field], item_type).items]
        ELSE NoTopItems

\* the (item type, time range) pairs and the responses the cache is exercised with
CachePairs == {<<ARTIST, SHORT>>, <<ARTIST, MEDIUM>>, <<TRACK, SHORT>>}
TopItem(id) == [id |-> id, name |-> "name_" \o id, position |-> 1, position_change |-> None]
CacheLists == {<<>>, <<TopItem("A")>>, <<TopItem("B")>>}

\* ------------------------------------------------------ taste comparison
\* the top items a processor call returns to the comparison: ranked, untagged
CmpIds == {"A", "B"}
ComparedItem(id, position) == [id |-> id, position |-> position, common |-> FALSE]
ComparedLists ==
    {[i \in DOMAIN ids |-> ComparedItem(ids[i], i)] :
        ids \in {q \in SeqsUpTo(CmpIds, Cardinality(CmpIds)) : IsInjective(q)}}

add_common_item_tag_first_list(top_items, other_top_items) ==
    LET common_ids == Range(Column(top_items, "id")) \cap Range(Column(other_top_items, "id"))
        Tag(items) == [i \in DOMAIN items |->
                        IF items[i].id \in common_ids THEN [items[i] EXCEPT !.common = TRUE]
                        ELSE items[i]]
    IN  [top_items |-> Tag(top_items), other_top_items |-> other_top_items]

\* the two lists after the call (the call changes them in place)
add_common_item_tag(top_items, other_top_items) ==
    LET common_ids == Range(Column(top_items, "id")) \cap Range(Column(other_top_items, "id"))
        Tag(items) == [i \in DOMAIN items |->
                        IF items[i].id \in common_ids THEN [items[i] EXCEPT !.common = TRUE]
                        ELSE items[i]]
    IN  [top_items |-> Tag(top_items), other_top_items |-> Tag(other_top_items)]

\* the order get_top_items_for_all_time_ranges works through the time ranges
TimeRangeOrder == <<SHORT, MEDIUM, LONG>>

all_time_ranges_long_twice(short_term, medium_term, long_term) ==
    [r \in {SHORT, MEDIUM, LONG} |->
        IF r = SHORT THEN short_term ELSE long_term]

\* the dictionary get_top_items_for_all_time_ranges builds for one user
all_time_ranges(short_term, medium_term, long_term) ==
    [r \in {SHORT, MEDIUM, LONG} |->
        IF r = SHORT THEN short_term ELSE IF r = MEDIUM THEN medium_term ELSE long_term]

\* ------------------------------------------------------ users and tokens
DBUser(user_id) == [id |-> user_id, refresh_token |-> "refresh_" \o user_id]

\* DBService.get_user over the rows of spotify_user: a missing row raises
\* DBServiceException inside the try block, and the except clause names
\* mysql.connector.Error only
DBService_get_user(rows, user_id) ==
    IF user_id \in rows
    THEN [status |-> "ok", user |-> DBUser(user_id)]
    ELSE [status |-> "DBServiceException", detail |-> "User not found with ID: " \o user_id]

\* bool(user) of a DBUser instance: a model object is never falsy
Truthy(user) == user.id = user.id

HTTPException(status_code, detail) ==
    [status |-> "HTTPException", status_code |-> status_code, detail |-> detail]

\* SpotifyDataService.refresh_tokens: the upstream service answers with new
\* tokens or the call raises
refresh_tokens(refresh_token) ==
    {[status |-> "ok", access_token |-> "access_for_" \o refresh_token],
     [status |-> "SpotifyDataServiceException"]}

_get_access_token_key(user_id) == "access_token-" \o user_id

\* the two ways a route obtains an access token for the requesting user
AuthOperations == {"retrieve_user_from_db_and_refresh_tokens", "get_access_token"}

\* ------------------------------------------------------------------ state
VARIABLES
    db,                     \* snapshot store rows of the requested (user, time range): latest and previous date
    request,                \* the public operation running, with the arguments it passes on
    pc,                     \* position inside _get_top_items
    db_top_items_latest,
    db_top_items_previous,
    db_items_data,
    item_ids,               \* identifiers sent to the batched metadata fetch
    spotify_items,          \* what the upstream service returned
    response,               \* what the request returns or raises
    calls                   \* collaborator calls made so far, in order

VARIABLES
    now,                    \* what datetime.now(uk_tz) returns
    collection_dates        \* what get_collection_dates returned

pipeline_vars == <<db, request, pc, db_top_items_latest, db_top_items_previous, db_items_data,
                   item_ids, spotify_items, response, calls>>
VARIABLES
    clock,                  \* the current half-day slot
    redis,                  \* content of the key-value server
    stores,                 \* number of store_top_items calls made
    stored                  \* per (user, item type, time range): the last response stored, and when

VARIABLES
    cmp_pc,                 \* position inside get_top_items_for_all_time_ranges
    cmp_fetched,            \* per time range done: the two lists as the processor returned them
    cmp_tagged,             \* per time range done: the two lists after add_common_item_tag
    cmp_result              \* what get_top_items_for_all_time_ranges returns

VARIABLES
    spotify_user,           \* the user ids that have a row in the user table
    cached_tokens,          \* access tokens held by the memory store, by key
    auth_request,           \* the operation running and the user id it runs for
    auth_pc,                \* position inside it
    auth_user,              \* what DBService.get_user returned
    auth_response,          \* what the operation returns or raises
    auth_calls              \* collaborator calls made so far, in order

VARIABLES
    tasks                   \* the concurrent memory-store calls in flight, each with its position and locals

VARIABLES
    x_request,              \* the comparison request: requesting user, other user, access token, operation
    x_db,                   \* per user: the snapshot store rows of the latest and the previous date
    x_upstream,             \* per access token: the top list the upstream service holds for its owner
    x_pc,                   \* position inside get_top_items_with_comparisons_for_time_range
    x_lists                 \* what the two processor calls returned or raised

VARIABLES
    si_users,               \* the rows of the spotify_user table
    si_queue,               \* the messages sent to the processing queue, in order
    si_count,               \* number of POST /token requests made
    si_request,             \* the POST /token request running, and what the collaborators answer it
    si_pc,                  \* position inside get_token
    si_new_user_created,    \* what db_service.create_user returned
    si_response             \* what get_token returns or raises

VARIABLES
    b_token,                \* the bearer token of a request to a protected route
    b_now,                  \* the time the request arrives
    b_pc,                   \* position of the request: dependency, route handler, answered
    b_user_id,              \* what get_user_id_from_token returned or raised
    b_ran                   \* whether the protected operation ran, and for which user id

dates_vars == <<now, collection_dates>>
bearer_vars == <<b_token, b_now, b_pc, b_user_id, b_ran>>
signin_vars == <<si_users, si_queue, si_count, si_request, si_pc, si_new_user_created, si_response>>
cross_vars == <<x_request, x_db, x_upstream, x_pc, x_lists>>
race_vars == <<tasks>>
late_vars == <<race_vars, cross_vars, signin_vars, bearer_vars>>
auth_vars == <<spotify_user, cached_tokens, auth_request, auth_pc, auth_user, auth_response, auth_calls>>
cache_vars == <<clock, redis, stores, stored>>
compare_vars == <<cmp_pc, cmp_fetched, cmp_tagged, cmp_result>>
other_vars == <<dates_vars, cache_vars, compare_vars, auth_vars, late_vars>>

NoComparison == [returned |-> FALSE]

\* no cross-user comparison is being observed
CrossIdle ==
    /\ x_request = [operation |-> "none"]
    /\ x_db = <<>>
    /\ x_upstream = <<>>
    /\ x_pc = "idle"
    /\ x_lists = <<>>

NoAnswer == [status |-> "none"]

NotRun == [ran |-> FALSE]

\* no request to a protected route is being observed
BearerIdle ==
    /\ b_token = [well_formed |-> FALSE]
    /\ b_now = 0
    /\ b_pc = "idle"
    /\ b_user_id = NoAnswer
    /\ b_ran = NotRun

\* no sign-in is being observed
SigninIdle ==
    /\ si_users = {}
    /\ si_queue = <<>>
    /\ si_count = 0
    /\ si_request = [code |-> "none"]
    /\ si_pc = "idle"
    /\ si_new_user_created = None
    /\ si_response = NoAnswer

\* no concurrent memory-store calls are being observed
RaceIdle == tasks = <<>>

LateIdle == RaceIdle /\ CrossIdle /\ SigninIdle /\ BearerIdle


\* no token is being obtained
AuthIdle ==
    /\ spotify_user = {}
    /\ cached_tokens = [k \in {_get_access_token_key(u) : u \in UserIds} |-> Nil]
    /\ auth_request = [operation |-> "none"]
    /\ auth_pc = "idle"
    /\ auth_user = NoAnswer
    /\ auth_response = NoAnswer
    /\ auth_calls = <<>>

\* no comparison request is being observed
CompareIdle ==
    /\ cmp_pc = 0
    /\ cmp_fetched = <<>>
    /\ cmp_tagged = <<>>
    /\ cmp_result = NoComparison
vars == <<pipeline_vars, other_vars>>

\* get_collection_dates has not returned
NoDates == [latest |-> "none"]

NotStored == [stored |-> FALSE]

\* the memory store is not being observed
CacheIdle ==
    /\ clock = 0
    /\ redis = [k \in RedisKeys |-> Nil]
    /\ stores = 0
    /\ stored = [u \in UserIds, p \in CachePairs |-> NotStored]

\* no get_collection_dates call is being observed
DatesIdle ==
    /\ now = [year |-> 0]
    /\ collection_dates = NoDates

NoResult == Result("none", <<>>)

Init ==
    /\ request \in Operations
    /\ db \in [latest : Snapshots(request.item_type), previous : Snapshots(request.item_type)]
    /\ pc = "get_latest"
    /\ db_top_items_latest = <<>>
    /\ db_top_items_previous = <<>>
    /\ db_items_data = Frame("none", <<>>)
    /\ item_ids = <<>>
    /\ spotify_items = NoResult
    /\ response = NoResult
    /\ calls = <<>>
    /\ DatesIdle
    /\ CacheIdle
    /\ CompareIdle
    /\ AuthIdle
    /\ LateIdle

\* the collection date each snapshot read asks for: collected_date=collection_dates.latest
\* in the first read, collected_date=collection_dates.previous in the second
first_collected_date == "latest"

second_collected_date_latest == "latest"

second_collected_date == "previous"

\* _get_top_items, lines 129-139
GetLatest ==
    /\ pc = "get_latest"
    /\ \E rows \in DBService_get_top_items(db[first_collected_date], request.order_by_field,
                                             request.order_direction, Limit) :
        /\ db_top_items_latest' = rows
        /\ pc' = IF rows = <<>> THEN "default" ELSE "get_previous"
    /\ calls' = Append(calls, "db.get_top_items(" \o first_collected_date \o ")")
    /\ UNCHANGED other_vars
    /\ UNCHANGED <<db, request, db_top_items_previous, db_items_data, item_ids, spotify_items, response>>

\* the keywords _default_get_top_items passes to SpotifyDataService.get_top_items
_default_get_top_items_keywords == {"access_token", "item_type"}

\* _get_top_items, lines 141-146, with _default_get_top_items
DefaultGetTopItems ==
    /\ pc = "default"
    /\ \E data \in {q \in SeqsUpTo(Ids, MaxLen) : IsInjective(q)} :
        LET items == SpotifyDataService_get_top_items(_default_get_top_items_keywords, data)
        IN  /\ spotify_items' = items
            /\ calls' = IF items.status = "TypeError" THEN calls
                        ELSE Append(calls, "spotify.get_top_items")
            /\ response' = IF items.status # "ok" THEN Result(items.status, <<>>)
                           ELSE create_top_items_from_data(items.items, request.item_type)
    /\ pc' = "done"
    /\ UNCHANGED other_vars
    /\ UNCHANGED <<db, request, db_top_items_latest, db_top_items_previous, db_items_data, item_ids>>

\* _get_top_items, lines 148-156
GetPrevious ==
    /\ pc = "get_previous"
    /\ \E rows \in DBService_get_top_items(db[second_collected_date], request.order_by_field,
                                             request.order_direction, Limit) :
        db_top_items_previous' = rows
    /\ calls' = Append(calls, "db.get_top_items(" \o second_collected_date \o ")")
    /\ pc' = "reconcile"
    /\ UNCHANGED other_vars
    /\ UNCHANGED <<db, request, db_top_items_latest, db_items_data, item_ids, spotify_items, response>>

\* the engine run whatever previous holds
RunsEngine_always(previous) == TRUE

RunsEngine(previous) == previous # <<>>

\* _get_top_items, lines 158-167
Reconcile ==
    /\ pc = "reconcile"
    /\ LET data == IF RunsEngine(db_top_items_previous)
                   THEN _add_position_changes_to_db_data(db_top_items_latest, db_top_items_previous,
                            request.item_type, request.comparison_field, request.id_key)
                   ELSE Frame("ok", db_top_items_latest)
       IN  /\ db_items_data' = data
           /\ calls' = IF RunsEngine(db_top_items_previous)
                       THEN Append(calls, "_add_position_changes_to_db_data") ELSE calls
           /\ IF data.status # "ok"
              THEN pc' = "done" /\ response' = Result(data.status, <<>>)
              ELSE pc' = (IF request.enrich_data THEN "enrich" ELSE "create") /\ UNCHANGED response
    /\ UNCHANGED other_vars
    /\ UNCHANGED <<db, request, db_top_items_latest, db_top_items_previous, item_ids, spotify_items>>

\* _get_top_items, lines 169-174, with _enrich_db_data_with_spotify_data
Enrich ==
    /\ pc = "enrich"
    /\ IF (request.item_type \o "_id") \notin Columns(db_items_data.rows)
       THEN /\ pc' = "done"
            /\ response' = Result("KeyError", <<>>)
            /\ db_items_data' = Frame("KeyError", <<>>)
            /\ UNCHANGED <<item_ids, spotify_items, calls>>
       ELSE /\ item_ids' = ItemIds(db_items_data.rows, request.item_type)
            /\ calls' = Append(calls, "spotify.get_several_items_by_ids")
            /\ \E data \in UpstreamAnswers :
                LET items == get_several_items_by_ids(request.item_type, data)
                    enriched == _enrich_db_data_with_spotify_data(db_items_data.rows, request.item_type, items)
                IN  /\ spotify_items' = items
                    /\ db_items_data' = enriched
                    /\ IF enriched.status # "ok"
                       THEN pc' = "done" /\ response' = Result(enriched.status, <<>>)
                       ELSE pc' = "create" /\ UNCHANGED response
    /\ UNCHANGED other_vars
    /\ UNCHANGED <<db, request, db_top_items_latest, db_top_items_previous>>

\* _get_top_items, lines 176-178
CreateTopItems ==
    /\ pc = "create"
    /\ response' = create_top_items_from_data(db_items_data.rows, request.item_type)
    /\ pc' = "done"
    /\ UNCHANGED other_vars
    /\ UNCHANGED <<db, request, db_top_items_latest, db_top_items_previous, db_items_data,
                   item_ids, spotify_items, calls>>

Next ==
    \/ GetLatest
    \/ DefaultGetTopItems
    \/ GetPrevious
    \/ Reconcile
    \/ Enrich
    \/ CreateTopItems

Spec == Init /\ [][Next]_vars

\* ------------------- specification: a latest snapshot with repeated identifiers
RepeatsInit ==
    /\ request \in Operations
    /\ db \in [latest : SnapshotsWithRepeats(request.item_type), previous : Snapshots(request.item_type)]
    /\ pc = "get_latest"
    /\ db_top_items_latest = <<>>
    /\ db_top_items_previous = <<>>
    /\ db_items_data = Frame("none", <<>>)
    /\ item_ids = <<>>
    /\ spotify_items = NoResult
    /\ response = NoResult
    /\ calls = <<>>
    /\ DatesIdle
    /\ CacheIdle
    /\ CompareIdle
    /\ AuthIdle
    /\ LateIdle

RepeatsSpec == RepeatsInit /\ [][Next]_vars

\* ------------------------------------------- specification: collection window
\* no top-items request is being observed
PipelineIdle ==
    /\ request = get_top_artists
    /\ db = [latest |-> {}, previous |-> {}]
    /\ pc = "idle"
    /\ db_top_items_latest = <<>>
    /\ db_top_items_previous = <<>>
    /\ db_items_data = Frame("none", <<>>)
    /\ item_ids = <<>>
    /\ spotify_items = NoResult
    /\ response = NoResult
    /\ calls = <<>>

DatesInit ==
    /\ now \in Instants
    /\ collection_dates = NoDates
    /\ PipelineIdle
    /\ CacheIdle
    /\ CompareIdle
    /\ AuthIdle
    /\ LateIdle

\* _get_top_items, line 129
GetCollectionDates ==
    /\ collection_dates = NoDates
    /\ collection_dates' = get_collection_dates(now, UpdateHour, UpdateMinute)
    /\ UNCHANGED <<now, pipeline_vars, cache_vars, compare_vars, auth_vars, late_vars>>

DatesNext == GetCollectionDates

DatesSpec == DatesInit /\ [][DatesNext]_vars

\* ------------------------------------------------- specification: memory store
CacheInit ==
    /\ clock \in FirstSlots
    /\ redis = [k \in RedisKeys |-> Nil]
    /\ stores = 0
    /\ stored = [u \in UserIds, p \in CachePairs |-> NotStored]
    /\ PipelineIdle
    /\ DatesIdle
    /\ CompareIdle
    /\ AuthIdle
    /\ LateIdle

\* MemoryStore.store_top_items, lines 44-81
StoreTopItems ==
    /\ stores < MaxStores
    /\ \E u \in UserIds, p \in CachePairs, items \in CacheLists :
        /\ redis' = store_top_items(redis, clock, u, items, p[1], p[2])
        /\ stored' = [stored EXCEPT ![u, p] = [stored |-> TRUE, items |-> items, at |-> clock]]
    /\ stores' = stores + 1
    /\ UNCHANGED <<clock, pipeline_vars, dates_vars, compare_vars, auth_vars, late_vars>>

\* time passes; what was stored under a key that has now expired is gone
Tick ==
    /\ clock < MaxClock
    /\ clock' = clock + 1
    /\ stored' = [u \in UserIds, p \in CachePairs |->
                    IF redis_get(redis, clock + 1, _get_user_top_items_key(u)) = Nil
                    THEN NotStored ELSE stored[u, p]]
    /\ UNCHANGED <<redis, stores, pipeline_vars, dates_vars, compare_vars, auth_vars, late_vars>>

CacheNext ==
    \/ StoreTopItems
    \/ Tick

CacheSpec == CacheInit /\ [][CacheNext]_vars

\* what retrieve_top_items answers now
Retrieved(u, p) == retrieve_top_items(redis, clock, u, p[1], p[2])

\* --------------------------------------------- specification: taste comparison
CompareInit ==
    /\ cmp_pc = 1
    /\ cmp_fetched = <<>>
    /\ cmp_tagged = <<>>
    /\ cmp_result = NoComparison
    /\ PipelineIdle
    /\ DatesIdle
    /\ CacheIdle
    /\ AuthIdle
    /\ LateIdle

\* get_top_items_with_comparisons_for_time_range for the next time range:
\* both processor calls return a list
CompareTimeRange ==
    /\ cmp_pc \in DOMAIN TimeRangeOrder
    /\ \E user_top_items \in ComparedLists, other_user_top_items \in ComparedLists :
        /\ cmp_fetched' = Append(cmp_fetched, [top_items |-> user_top_items,
                                               other_top_items |-> other_user_top_items])
        /\ cmp_tagged' = Append(cmp_tagged, add_common_item_tag(user_top_items, other_user_top_items))
    /\ cmp_pc' = cmp_pc + 1
    /\ UNCHANGED <<cmp_result, pipeline_vars, dates_vars, cache_vars, auth_vars, late_vars>>

\* one of the two processor calls of the next time range raises: the request ends
CompareTimeRangeFails ==
    /\ cmp_pc \in DOMAIN TimeRangeOrder
    /\ cmp_pc' = Len(TimeRangeOrder) + 2
    /\ UNCHANGED <<cmp_fetched, cmp_tagged, cmp_result, pipeline_vars, dates_vars, cache_vars, auth_vars, late_vars>>

\* get_top_items_for_all_time_ranges, lines 111-123
ReturnAllTimeRanges ==
    /\ cmp_pc = Len(TimeRangeOrder) + 1
    /\ cmp_result' =
        [returned |-> TRUE,
         user_top_items |-> all_time_ranges(cmp_tagged[1].top_items, cmp_tagged[2].top_items,
                                            cmp_tagged[3].top_items),
         other_user_top_items |-> all_time_ranges(cmp_tagged[1].other_top_items,
                                                  cmp_tagged[2].other_top_items,
                                                  cmp_tagged[3].other_top_items)]
    /\ cmp_pc' = Len(TimeRangeOrder) + 2
    /\ UNCHANGED <<cmp_fetched, cmp_tagged, pipeline_vars, dates_vars, cache_vars, auth_vars, late_vars>>

CompareNext ==
    \/ CompareTimeRange
    \/ CompareTimeRangeFails
    \/ ReturnAllTimeRanges

CompareSpec == CompareInit /\ [][CompareNext]_vars

\* the identifiers of a list of items
IdsOf(items) == Range(Column(items, "id"))
\* the lists the processor returned for a time range
FetchedFor(r) == cmp_fetched[CHOOSE i \in DOMAIN TimeRangeOrder : TimeRangeOrder[i] = r]

\* ------------------------------------------- specification: users and tokens
AuthInit ==
    /\ spotify_user \in SUBSET UserIds
    /\ cached_tokens \in [{_get_access_token_key(u) : u \in UserIds} -> {Nil, [value |-> "cached_access"]}]
    /\ auth_request \in [operation : AuthOperations, user_id : UserIds]
    /\ auth_pc = "start"
    /\ auth_user = NoAnswer
    /\ auth_response = NoAnswer
    /\ auth_calls = <<>>
    /\ PipelineIdle
    /\ DatesIdle
    /\ CacheIdle
    /\ CompareIdle
    /\ LateIdle

\* get_access_token, lines 136-138: the memory store is asked first
RetrieveAccessToken ==
    /\ auth_pc = "start"
    /\ auth_request.operation = "get_access_token"
    /\ LET access_token == cached_tokens[_get_access_token_key(auth_request.user_id)]
       IN  IF access_token # Nil
           THEN /\ auth_response' = [status |-> "ok", access_token |-> access_token.value]
                /\ auth_pc' = "done"
           ELSE /\ auth_pc' = "get_user"
                /\ UNCHANGED auth_response
    /\ auth_calls' = Append(auth_calls, "memory_store.retrieve_access_token")
    /\ UNCHANGED <<spotify_user, cached_tokens, auth_request, auth_user>>
    /\ UNCHANGED <<pipeline_vars, dates_vars, cache_vars, compare_vars, late_vars>>

\* retrieve_user_from_db_and_refresh_tokens, lines 13-16, and get_access_token, line 139
GetUser ==
    /\ \/ auth_pc = "start" /\ auth_request.operation = "retrieve_user_from_db_and_refresh_tokens"
       \/ auth_pc = "get_user"
    /\ LET user == DBService_get_user(spotify_user, auth_request.user_id)
       IN  /\ auth_user' = user
           /\ IF user.status # "ok"
              THEN auth_response' = user /\ auth_pc' = "done"
              ELSE IF auth_request.operation = "retrieve_user_from_db_and_refresh_tokens"
                        /\ ~Truthy(user.user)
              THEN auth_response' = HTTPException(404, "User not found") /\ auth_pc' = "done"
              ELSE auth_pc' = "refresh" /\ UNCHANGED auth_response
    /\ auth_calls' = Append(auth_calls, "db.get_user")
    /\ UNCHANGED <<spotify_user, cached_tokens, auth_request>>
    /\ UNCHANGED <<pipeline_vars, dates_vars, cache_vars, compare_vars, late_vars>>

\* retrieve_user_from_db_and_refresh_tokens, lines 18-19, and get_access_token, lines 140-144
RefreshTokens ==
    /\ auth_pc = "refresh"
    /\ \E updated_tokens \in refresh_tokens(auth_user.user.refresh_token) :
        /\ auth_response' = updated_tokens
        /\ cached_tokens' =
            IF updated_tokens.status = "ok" /\ auth_request.operation = "get_access_token"
            THEN [cached_tokens EXCEPT ![_get_access_token_key(auth_request.user_id)] =
                        [value |-> updated_tokens.access_token]]
            ELSE cached_tokens
    /\ auth_calls' = Append(auth_calls, "spotify.refresh_tokens")
    /\ auth_pc' = "done"
    /\ UNCHANGED <<spotify_user, auth_request, auth_user>>
    /\ UNCHANGED <<pipeline_vars, dates_vars, cache_vars, compare_vars, late_vars>>

AuthNext ==
    \/ RetrieveAccessToken
    \/ GetUser
    \/ RefreshTokens

AuthSpec == AuthInit /\ [][AuthNext]_vars

AuthCalled(op) == \E i \in DOMAIN auth_calls : auth_calls[i] = op

\* ------------------------------------------------- specification: /me routes
\* one request to a /me/top route by user u1
MeInit ==
    /\ request \in MeRoutes
    /\ db \in [latest : Snapshots(request.item_type), previous : Snapshots(request.item_type)]
    /\ pc = "me_get_latest"
    /\ db_top_items_latest = <<>>
    /\ db_top_items_previous = <<>>
    /\ db_items_data = Frame("none", <<>>)
    /\ item_ids = <<>>
    /\ spotify_items = NoResult
    /\ response = NoResult
    /\ calls = <<>>
    /\ spotify_user \in SUBSET {"u1"}
    /\ cached_tokens = [k \in {_get_access_token_key(u) : u \in UserIds} |-> Nil]
    /\ auth_request = [operation |-> "retrieve_user_from_db_and_refresh_tokens", user_id |-> "u1"]
    /\ auth_pc = "start"
    /\ auth_user = NoAnswer
    /\ auth_response = NoAnswer
    /\ auth_calls = <<>>
    /\ DatesIdle
    /\ CacheIdle
    /\ CompareIdle
    /\ LateIdle

\* retrieve_user_from_db_and_refresh_tokens returned tokens
MeTokensRefreshed == auth_pc = "done" /\ auth_response.status = "ok"

\* the first snapshot read of a /me/top route
MeGetLatest ==
    /\ MeTokensRefreshed
    /\ pc = "me_get_latest"
    /\ \E rows \in DBService_read(db.latest, request.item_type, Limit) :
        /\ db_top_items_latest' = rows
        /\ pc' = IF rows = <<>> THEN "me_default" ELSE "me_get_previous"
    /\ calls' = Append(calls, "db.get_top_" \o request.item_type \o "s(latest)")
    /\ UNCHANGED other_vars
    /\ UNCHANGED <<db, request, db_top_items_previous, db_items_data, item_ids, spotify_items, response>>

\* no latest snapshot: the upstream top list is returned
MeDefault ==
    /\ pc = "me_default"
    /\ \E answer \in {Result("UpstreamRequestError", <<>>)} \cup {Result("ok", q) : q \in UpstreamLists} :
        LET items == IF answer.status # "ok" THEN answer
                     ELSE Result("ok", [i \in DOMAIN answer.items |-> SpotifyItem(answer.items[i])])
        IN  /\ spotify_items' = items
            /\ response' = me_default_items(items, request.item_type)
    /\ calls' = Append(calls, "spotify.get_top_" \o request.item_type \o "s")
    /\ pc' = "done"
    /\ UNCHANGED other_vars
    /\ UNCHANGED <<db, request, db_top_items_latest, db_top_items_previous, db_items_data, item_ids>>

\* the second snapshot read of a /me/top route
MeGetPrevious ==
    /\ pc = "me_get_previous"
    /\ \E rows \in DBService_read(db.previous, request.item_type, Limit) :
        /\ db_top_items_previous' = rows
        /\ pc' = IF rows = <<>> THEN "me_latest_only" ELSE "me_reconciled"
    /\ calls' = Append(calls, "db.get_top_" \o request.item_type \o "s(previous)")
    /\ UNCHANGED other_vars
    /\ UNCHANGED <<db, request, db_top_items_latest, db_items_data, item_ids, spotify_items, response>>

\* what the batched fetch of a /me/top/artists or /me/top/tracks request returns
MeFetch(answer) ==
    IF answer.status # "ok" THEN answer
    ELSE Result("ok", [i \in DOMAIN answer.items |-> SpotifyItem(answer.items[i])])

\* no previous snapshot: the latest rows, for artists and tracks with the
\* fetched metadata
MeLatestOnly ==
    /\ pc = "me_latest_only"
    /\ IF request.item_type \in {ARTIST, TRACK}
       THEN /\ item_ids' = Column(db_top_items_latest, request.item_type \o "_id")
            /\ calls' = Append(calls, "spotify.get_several_" \o request.item_type \o "s_by_ids")
            /\ \E answer \in UpstreamAnswers :
                /\ spotify_items' = MeFetch(answer)
                /\ response' = me_latest_only_items(db_top_items_latest, request.item_type, MeFetch(answer))
       ELSE /\ response' = me_latest_only_rows(db_top_items_latest)
            /\ UNCHANGED <<item_ids, calls, spotify_items>>
    /\ pc' = "done"
    /\ UNCHANGED other_vars
    /\ UNCHANGED <<db, request, db_top_items_latest, db_top_items_previous, db_items_data>>

\* both snapshots: calculate_position_changes, then the response
MeReconciled ==
    /\ pc = "me_reconciled"
    /\ LET changes == calculate_position_changes(db_top_items_latest, db_top_items_previous,
                            request.item_type, request.comparison_field, request.id_key)
       IN  /\ db_items_data' = changes
           /\ IF request.item_type \in {ARTIST, TRACK}
              THEN /\ item_ids' = Column(db_top_items_latest, request.item_type \o "_id")
                   /\ calls' = Append(calls, "spotify.get_several_" \o request.item_type \o "s_by_ids")
                   /\ \E answer \in UpstreamAnswers :
                        /\ spotify_items' = MeFetch(answer)
                        /\ response' = me_reconciled_items(changes, request.item_type, MeFetch(answer))
              ELSE /\ response' = IF request.item_type = GENRE THEN me_reconciled_genres(changes)
                                  ELSE me_reconciled_emotions(changes)
                   /\ UNCHANGED <<item_ids, calls, spotify_items>>
    /\ pc' = "done"
    /\ UNCHANGED other_vars
    /\ UNCHANGED <<db, request, db_top_items_latest, db_top_items_previous>>

MeNext ==
    \/ GetUser
    \/ RefreshTokens
    \/ MeGetLatest
    \/ MeDefault
    \/ MeGetPrevious
    \/ MeLatestOnly
    \/ MeReconciled

MeSpec == MeInit /\ [][MeNext]_vars

\* the state a finished /me/top request ended in
MeDone == pc = "done"
MeIsLATEST_ONLY == MeDone /\ db_top_items_latest # <<>> /\ db_top_items_previous = <<>>
MeIsRECONCILED == MeDone /\ db_top_items_latest # <<>> /\ db_top_items_previous # <<>>
\* the identifier field of a response item
MeResponseId == IF request.item_type \in {ARTIST, TRACK} THEN "id" ELSE request.item_type \o "_name"

\* ------------------------------ specification: concurrent store_top_items calls
\* two store_top_items calls in flight on one server; a call gives way to the
\* other at each of its awaited client calls
TaskIds == {1, 2}

StoreTask(user_id, pair, items) ==
    [pc |-> "retrieve", user_id |-> user_id, item_type |-> pair[1], time_range |-> pair[2],
     top_items_to_store |-> items, all_top_items_data |-> <<>>, is_new |-> FALSE]

RaceInit ==
    /\ clock \in FirstSlots
    /\ redis = [k \in RedisKeys |-> Nil]
    /\ stores = 0
    /\ stored = [u \in UserIds, p \in CachePairs |-> NotStored]
    /\ tasks \in [TaskIds -> {StoreTask(u, p, items) : u \in UserIds, p \in CachePairs, items \in CacheLists}]
    /\ PipelineIdle
    /\ DatesIdle
    /\ CompareIdle
    /\ AuthIdle
    /\ CrossIdle
    /\ SigninIdle
    /\ BearerIdle

\* store_top_items, lines 51-56: the awaited read of what is stored, and is_new
StoreRetrieve(i) ==
    /\ tasks[i].pc = "retrieve"
    /\ LET retrieved == _retrieve_all_top_items_data(redis, clock, tasks[i].user_id)
           is_new == ~retrieved.found \/ DOMAIN retrieved.data = {}
       IN  tasks' = [tasks EXCEPT ![i].pc = "set",
                                  ![i].is_new = is_new,
                                  ![i].all_top_items_data = IF is_new THEN <<>> ELSE retrieved.data]
    /\ UNCHANGED <<cache_vars, pipeline_vars, dates_vars, compare_vars, auth_vars, cross_vars, signin_vars, bearer_vars>>

\* store_top_items, lines 58-66: the entry is put into the dictionary read
\* before and the whole dictionary is written back
StoreSet(i) ==
    /\ tasks[i].pc = "set"
    /\ LET all_top_items_data ==
                SetItem(tasks[i].all_top_items_data,
                        TopItemsField(tasks[i].item_type, tasks[i].time_range),
                        [k \in DOMAIN tasks[i].top_items_to_store |-> model_dump(tasks[i].top_items_to_store[k])])
       IN  /\ redis' = redis_set(redis, _get_user_top_items_key(tasks[i].user_id), json_dumps(all_top_items_data))
           /\ tasks' = [tasks EXCEPT ![i].pc = IF tasks[i].is_new THEN "expire" ELSE "done",
                                      ![i].all_top_items_data = all_top_items_data]
    /\ UNCHANGED <<clock, stores, stored, pipeline_vars, dates_vars, compare_vars, auth_vars, cross_vars, signin_vars, bearer_vars>>

\* store_top_items, lines 68-81: the expiry, when nothing was stored at the read
StoreExpire(i) ==
    /\ tasks[i].pc = "expire"
    /\ redis' = redis_expire(redis, clock, _get_user_top_items_key(tasks[i].user_id), expiry_seconds(clock))
    /\ tasks' = [tasks EXCEPT ![i].pc = "done"]
    /\ UNCHANGED <<clock, stores, stored, pipeline_vars, dates_vars, compare_vars, auth_vars, cross_vars, signin_vars, bearer_vars>>

RaceNext ==
    \/ \E i \in TaskIds : StoreRetrieve(i)
    \/ \E i \in TaskIds : StoreSet(i)
    \/ \E i \in TaskIds : StoreExpire(i)

RaceSpec == RaceInit /\ [][RaceNext]_vars

\* both calls have returned
StoresReturned == \A i \in TaskIds : tasks[i].pc = "done"

\* --------------------------- specification: concurrent get_access_token requests
\* two get_access_token requests in flight on one server; the clock counts
\* minutes here, and time passes TickMinutes at a time
TickMinutes == 29
MaxTicks == 3

\* timedelta(minutes=58)
TokenMinutes == 58

TokenKeys == {_get_access_token_key(u) : u \in UserIds}

TokenTask(user_id) ==
    [pc |-> "retrieve", user_id |-> user_id, access_token |-> Nil, stored_at |-> {}]

TokenInit ==
    /\ clock = 0
    /\ redis = [k \in TokenKeys |-> Nil]
    /\ stores = 0
    /\ stored = [u \in UserIds, p \in CachePairs |-> NotStored]
    /\ tasks \in [TaskIds -> {TokenTask(u) : u \in UserIds}]
    /\ PipelineIdle
    /\ DatesIdle
    /\ CompareIdle
    /\ AuthIdle
    /\ CrossIdle
    /\ SigninIdle
    /\ BearerIdle

\* MemoryStore.retrieve_access_token
retrieve_access_token(store, t, user_id) == redis_get(store, t, _get_access_token_key(user_id))

\* get_access_token, lines 136-138: a token in the memory store is returned as it is
TokenRetrieve(i) ==
    /\ tasks[i].pc = "retrieve"
    /\ LET access_token == retrieve_access_token(redis, clock, tasks[i].user_id)
       IN  tasks' = [tasks EXCEPT ![i].access_token = access_token,
                                  ![i].pc = IF access_token # Nil THEN "returned" ELSE "refresh"]
    /\ UNCHANGED <<cache_vars, pipeline_vars, dates_vars, compare_vars, auth_vars, cross_vars, signin_vars, bearer_vars>>

\* get_access_token, lines 139-141: the user's row is read and the upstream
\* service is asked for new tokens
TokenRefresh(i) ==
    /\ tasks[i].pc = "refresh"
    /\ \E updated_tokens \in refresh_tokens(DBUser(tasks[i].user_id).refresh_token) :
        tasks' = IF updated_tokens.status = "ok"
                 THEN [tasks EXCEPT ![i].access_token = [value |-> updated_tokens.access_token],
                                    ![i].pc = "set"]
                 ELSE [tasks EXCEPT ![i].pc = "failed"]
    /\ UNCHANGED <<cache_vars, pipeline_vars, dates_vars, compare_vars, auth_vars, cross_vars, signin_vars, bearer_vars>>

\* store_access_token, line 21: the awaited SET
TokenSet(i) ==
    /\ tasks[i].pc = "set"
    /\ redis' = redis_set(redis, _get_access_token_key(tasks[i].user_id), tasks[i].access_token)
    /\ tasks' = [tasks EXCEPT ![i].pc = "expire", ![i].stored_at = {clock}]
    /\ UNCHANGED <<clock, stores, stored, pipeline_vars, dates_vars, compare_vars, auth_vars, cross_vars, signin_vars, bearer_vars>>

\* store_access_token, line 22: the awaited EXPIRE
TokenExpire(i) ==
    /\ tasks[i].pc = "expire"
    /\ redis' = redis_expire(redis, clock, _get_access_token_key(tasks[i].user_id), TokenMinutes)
    /\ tasks' = [tasks EXCEPT ![i].pc = "returned"]
    /\ UNCHANGED <<clock, stores, stored, pipeline_vars, dates_vars, compare_vars, auth_vars, cross_vars, signin_vars, bearer_vars>>

\* store_access_token, line 22: the EXPIRE call raises (the connection to the
\* server is lost, the request is cancelled) and the request fails
TokenExpireFails(i) ==
    /\ tasks[i].pc = "expire"
    /\ tasks' = [tasks EXCEPT ![i].pc = "failed"]
    /\ UNCHANGED <<cache_vars, pipeline_vars, dates_vars, compare_vars, auth_vars, cross_vars, signin_vars, bearer_vars>>

TokenTick ==
    /\ clock < TickMinutes * MaxTicks
    /\ clock' = clock + TickMinutes
    /\ UNCHANGED <<redis, stores, stored, tasks, pipeline_vars, dates_vars, compare_vars, auth_vars, cross_vars, signin_vars, bearer_vars>>

TokenNext ==
    \/ \E i \in TaskIds : TokenRetrieve(i)
    \/ \E i \in TaskIds : TokenRefresh(i)
    \/ \E i \in TaskIds : TokenSet(i)
    \/ \E i \in TaskIds : TokenExpire(i)
    \/ \E i \in TaskIds : TokenExpireFails(i)
    \/ TokenTick

TokenSpec == TokenInit /\ [][TokenNext]_vars

\* ------------------------------------- specification: cross-user comparison
\* one get_top_items_with_comparisons_for_time_range call of the comparison
\* route, over the two users' snapshot stores and upstream top lists

\* the access token get_access_token yields for a user
AccessTokenOf(user_id) == "access_for_" \o DBUser(user_id).refresh_token

AccessTokens == {AccessTokenOf(u) : u \in UserIds}

CrossOperations == {get_top_artists, get_top_tracks}

\* the snapshots a user may hold for the requested time range
CrossSnapshots(item_type) ==
    {S \in Snapshots(item_type) : Cardinality(S) <= 1 /\ \A r \in S : r.position = 1}

UpstreamTopLists == {<<"A">>, <<"B", "C">>}

\* what the batched fetch answers with: the requested records, or a failure
CrossAnswers(ids) == {Result("UpstreamRequestError", <<>>), Result("ok", ids)}

\* TopItemsProcessor._get_top_items for one user's snapshots: `upstream` is
\* the top list the upstream service holds for the owner of access_token and
\* `fetched` what the batched fetch answers
_get_top_items(op, tables, upstream, fetched) ==
    LET latest == CHOOSE r \in DBService_get_top_items(tables.latest, op.order_by_field,
                                                         op.order_direction, Limit) : TRUE
        previous == CHOOSE r \in DBService_get_top_items(tables.previous, op.order_by_field,
                                                           op.order_direction, Limit) : TRUE
        items == SpotifyDataService_get_top_items(_default_get_top_items_keywords, upstream)
        data == IF RunsEngine(previous)
                THEN _add_position_changes_to_db_data(latest, previous, op.item_type,
                                                      op.comparison_field, op.id_key)
                ELSE Frame("ok", latest)
        enriched == _enrich_db_data_with_spotify_data(data.rows, op.item_type,
                        get_several_items_by_ids(op.item_type, fetched))
    IN  IF latest = <<>>
        THEN IF items.status # "ok" THEN Result(items.status, <<>>)
             ELSE create_top_items_from_data(items.items, op.item_type)
        ELSE IF data.status # "ok" THEN Result(data.status, <<>>)
        ELSE IF enriched.status # "ok" THEN Result(enriched.status, <<>>)
        ELSE create_top_items_from_data(enriched.rows, op.item_type)

\* the identifiers _get_top_items sends to the batched fetch
LatestItemIds(op, tables) ==
    ItemIds(CHOOSE r \in DBService_get_top_items(tables.latest, op.order_by_field,
                                                  op.order_direction, Limit) : TRUE,
            op.item_type)

CrossInit ==
    /\ \E u \in UserIds, o \in UserIds, op \in CrossOperations :
        /\ u # o
        /\ x_request = [operation |-> op, user_id |-> u, other_user_id |-> o,
                        access_token |-> AccessTokenOf(u)]
        /\ x_db \in [UserIds -> [latest : CrossSnapshots(op.item_type),
                                 previous : CrossSnapshots(op.item_type)]]
    /\ x_upstream \in [AccessTokens -> UpstreamTopLists]
    /\ x_pc = "user"
    /\ x_lists = <<>>
    /\ PipelineIdle
    /\ DatesIdle
    /\ CacheIdle
    /\ CompareIdle
    /\ AuthIdle
    /\ RaceIdle
    /\ SigninIdle
    /\ BearerIdle

\* get_top_items_with_comparisons_for_time_range, lines 56-62: the processor
\* is called for the requesting user
CrossUserTopItems ==
    /\ x_pc = "user"
    /\ \E fetched \in CrossAnswers(LatestItemIds(x_request.operation, x_db[x_request.user_id])) :
        LET user_top_items == _get_top_items(x_request.operation, x_db[x_request.user_id],
                                             x_upstream[x_request.access_token], fetched)
        IN  /\ x_lists' = [user |-> user_top_items]
            /\ x_pc' = IF user_top_items.status = "ok" THEN "other" ELSE "failed"
    /\ UNCHANGED <<x_request, x_db, x_upstream>>
    /\ UNCHANGED <<pipeline_vars, dates_vars, cache_vars, compare_vars, auth_vars, race_vars, signin_vars, bearer_vars>>

\* get_top_items_with_comparisons_for_time_range, lines 64-70: the processor
\* is called for the other user, with the same access_token
CrossOtherUserTopItems ==
    /\ x_pc = "other"
    /\ \E fetched \in CrossAnswers(LatestItemIds(x_request.operation, x_db[x_request.other_user_id])) :
        LET other_user_top_items == _get_top_items(x_request.operation, x_db[x_request.other_user_id],
                                                   x_upstream[x_request.access_token], fetched)
        IN  /\ x_lists' = [user |-> x_lists.user, other_user |-> other_user_top_items]
            /\ x_pc' = IF other_user_top_items.status = "ok" THEN "done" ELSE "failed"
    /\ UNCHANGED <<x_request, x_db, x_upstream>>
    /\ UNCHANGED <<pipeline_vars, dates_vars, cache_vars, compare_vars, auth_vars, race_vars, signin_vars, bearer_vars>>

CrossNext ==
    \/ CrossUserTopItems
    \/ CrossOtherUserTopItems

CrossSpec == CrossInit /\ [][CrossNext]_vars

\* the processor call for the other user has returned or raised
OtherUserCalled == x_pc \in {"done", "failed"} /\ "other_user" \in DOMAIN x_lists

\* ------------------------------------------------ specification: sign-in
\* POST /auth/spotify/token requests, one after the other
MaxSignins == 2

\* the refresh tokens the authorisation server may issue
IssuedRefreshTokens == {"refresh_new", "refresh_newer"}

\* the rows the user table may start with
StoredUsers == SUBSET {DBUser(u) : u \in UserIds}

\* DBService.create_user: the INSERT adds the row, or fails on the primary key
\* when a row with this id exists, which is logged and not raised; the method
\* has no return statement
create_user(rows, user_id, refresh_token) ==
    IF \E r \in rows : r.id = user_id
    THEN [rows |-> rows, returned |-> None]
    ELSE [rows |-> rows \cup {[id |-> user_id, refresh_token |-> refresh_token]}, returned |-> None]

\* bool(value) of what create_user returned
bool(value) == value # None

\* json.dumps({"user_id": user_id, "refresh_token": tokens.refresh_token})
Message(user_id, refresh_token) == [user_id |-> user_id, refresh_token |-> refresh_token]

SigninInit ==
    /\ si_users \in StoredUsers
    /\ si_queue = <<>>
    /\ si_count = 0
    /\ si_request = [code |-> "none"]
    /\ si_pc = "idle"
    /\ si_new_user_created = None
    /\ si_response = NoAnswer
    /\ PipelineIdle
    /\ DatesIdle
    /\ CacheIdle
    /\ CompareIdle
    /\ AuthIdle
    /\ RaceIdle
    /\ CrossIdle
    /\ BearerIdle

\* a POST /token request arrives; the rows and the queue it finds are kept for
\* comparison
SigninRequest ==
    /\ si_pc \in {"idle", "done"}
    /\ si_count < MaxSignins
    /\ \E code \in {"valid", "invalid"}, u \in UserIds, t \in IssuedRefreshTokens :
        si_request' = [code |-> code, user_id |-> u, refresh_token |-> t,
                       users_before |-> si_users, queue_before |-> si_queue]
    /\ si_count' = si_count + 1
    /\ si_pc' = "create_tokens"
    /\ si_new_user_created' = None
    /\ si_response' = NoAnswer
    /\ UNCHANGED <<si_users, si_queue>>
    /\ UNCHANGED <<pipeline_vars, dates_vars, cache_vars, compare_vars, auth_vars, race_vars, cross_vars, bearer_vars>>

\* get_token, lines 55-60 and 82-84: the code is exchanged for tokens and the
\* profile is read; a rejected code ends the request with 401
SigninCreateTokens ==
    /\ si_pc = "create_tokens"
    /\ IF si_request.code = "valid"
       THEN si_pc' = "create_user" /\ UNCHANGED si_response
       ELSE si_pc' = "done" /\ si_response' = HTTPException(401, "Invalid authorisation code.")
    /\ UNCHANGED <<si_users, si_queue, si_count, si_request, si_new_user_created>>
    /\ UNCHANGED <<pipeline_vars, dates_vars, cache_vars, compare_vars, auth_vars, race_vars, cross_vars, bearer_vars>>

\* get_token, line 63, with DBService.create_user
SigninCreateUser ==
    /\ si_pc = "create_user"
    /\ \/ LET created == create_user(si_users, si_request.user_id, si_request.refresh_token)
          IN  /\ si_users' = created.rows
              /\ si_new_user_created' = created.returned
              /\ si_pc' = "send"
              /\ UNCHANGED si_response
       \/ /\ si_response' = [status |-> "DBServiceException"]
          /\ si_pc' = "done"
          /\ UNCHANGED <<si_users, si_new_user_created>>
    /\ UNCHANGED <<si_queue, si_count, si_request>>
    /\ UNCHANGED <<pipeline_vars, dates_vars, cache_vars, compare_vars, auth_vars, race_vars, cross_vars, bearer_vars>>

\* get_token, lines 65-81: the message is sent when new_user_created is
\* truthy, then the session token is created and returned
SigninReturn ==
    /\ si_pc = "send"
    /\ si_queue' = IF bool(si_new_user_created)
                   THEN Append(si_queue, Message(si_request.user_id, si_request.refresh_token))
                   ELSE si_queue
    /\ si_response' = [status |-> "ok", token_type |-> "bearer", user_id |-> si_request.user_id]
    /\ si_pc' = "done"
    /\ UNCHANGED <<si_users, si_count, si_request, si_new_user_created>>
    /\ UNCHANGED <<pipeline_vars, dates_vars, cache_vars, compare_vars, auth_vars, race_vars, cross_vars, bearer_vars>>

SigninNext ==
    \/ SigninRequest
    \/ SigninCreateTokens
    \/ SigninCreateUser
    \/ SigninReturn

SigninSpec == SigninInit /\ [][SigninNext]_vars

\* get_token has returned its session token
SignedIn == si_pc = "done" /\ si_response.status = "ok"

\* the user of the request had a row when the request arrived
HadRow == \E r \in si_request.users_before : r.id = si_request.user_id

\* ------------------------------------- specification: protected routes
\* one request to a route that depends on get_user_id_from_token
MaxExp == 3

\* the keys a presented token may be signed with
SigningKeys == {"secret_key", "other_key"}

\* the tokens a client may present: a string that is not a token, or a token
\* with a payload, an expiry and a signature
BearerTokens ==
    {[well_formed |-> FALSE]}
    \cup [well_formed : {TRUE}, signed_with : SigningKeys, user_id : UserIds, exp : 0..MaxExp]

\* jwt.decode: the token is parsed, its signature verified with the key, and
\* its exp claim compared with the time
jwt_decode(token, key, t) ==
    IF ~token.well_formed THEN [status |-> "jwt.DecodeError"]
    ELSE IF token.signed_with # key THEN [status |-> "jwt.InvalidSignatureError"]
    ELSE IF token.exp <= t THEN [status |-> "jwt.ExpiredSignatureError"]
    ELSE [status |-> "ok", payload |-> [user_id |-> token.user_id, exp |-> token.exp]]

\* TokenService.decode_token: only jwt.ExpiredSignatureError is caught
decode_token(token, t) ==
    LET decoded == jwt_decode(token, "secret_key", t)
    IN  IF decoded.status = "jwt.ExpiredSignatureError"
        THEN [status |-> "TokenServiceException", detail |-> "Token expired"]
        ELSE decoded

\* get_user_id_from_token: only TokenServiceException becomes a 401
get_user_id_from_token(token, t) ==
    LET decoded == decode_token(token, t)
    IN  IF decoded.status = "ok" THEN [status |-> "ok", user_id |-> decoded.payload.user_id]
        ELSE IF decoded.status = "TokenServiceException" THEN HTTPException(401, "Token expired.")
        ELSE decoded

BearerInit ==
    /\ b_token \in BearerTokens
    /\ b_now \in 0..MaxExp
    /\ b_pc = "dependency"
    /\ b_user_id = NoAnswer
    /\ b_ran = NotRun
    /\ PipelineIdle
    /\ DatesIdle
    /\ CacheIdle
    /\ CompareIdle
    /\ AuthIdle
    /\ RaceIdle
    /\ CrossIdle
    /\ SigninIdle

\* the dependency is resolved before the route handler is called
BearerDependency ==
    /\ b_pc = "dependency"
    /\ b_user_id' = get_user_id_from_token(b_token, b_now)
    /\ b_pc' = "resolved"
    /\ UNCHANGED <<b_token, b_now, b_ran>>
    /\ UNCHANGED <<pipeline_vars, dates_vars, cache_vars, compare_vars, auth_vars, race_vars, cross_vars, signin_vars>>

\* the route handler runs with the user id the dependency returned
BearerProtectedOperation ==
    /\ b_pc = "resolved"
    /\ b_user_id.status = "ok"
    /\ b_ran' = [ran |-> TRUE, user_id |-> b_user_id.user_id]
    /\ b_pc' = "answered"
    /\ UNCHANGED <<b_token, b_now, b_user_id>>
    /\ UNCHANGED <<pipeline_vars, dates_vars, cache_vars, compare_vars, auth_vars, race_vars, cross_vars, signin_vars>>

\* the dependency raised: the request is answered without the handler
BearerRejected ==
    /\ b_pc = "resolved"
    /\ b_user_id.status # "ok"
    /\ b_pc' = "answered"
    /\ UNCHANGED <<b_token, b_now, b_user_id, b_ran>>
    /\ UNCHANGED <<pipeline_vars, dates_vars, cache_vars, compare_vars, auth_vars, race_vars, cross_vars, signin_vars>>

BearerNext ==
    \/ BearerDependency
    \/ BearerProtectedOperation
    \/ BearerRejected

BearerSpec == BearerInit /\ [][BearerNext]_vars

\* the presented token is one the server issued and that has not expired
Decodes == b_token.well_formed /\ b_token.signed_with = "secret_key" /\ b_token.exp > b_now

\* ------------------------------------------------------- derived predicates
Called(op) == \E i \in DOMAIN calls : calls[i] = op
IsDEFAULT == Called("db.get_top_items(latest)") /\ db_top_items_latest = <<>>
IsLATEST_ONLY == Called("db.get_top_items(previous)") /\ db_top_items_previous = <<>>
IsRECONCILED == Called("db.get_top_items(previous)") /\ db_top_items_previous # <<>>
EngineRan == Called("_add_position_changes_to_db_data")

\* db_items_data holds what the Position-Change Engine returned
EngineOutput ==
    /\ EngineRan
    /\ db_items_data.status = "ok"
    /\ pc = (IF request.enrich_data THEN "enrich" ELSE "create")

IdColumn == request.item_type \o "_" \o request.id_key
LatestIds == Range(Column(db_top_items_latest, IdColumn))
PreviousIds == Range(Column(db_top_items_previous, IdColumn))
RowsOf(id) == {i \in DOMAIN db_items_data.rows : db_items_data.rows[i][IdColumn] = id}

FetchCalled == Called("spotify.get_several_items_by_ids")
FetchedIds == Range(Column(spotify_items.items, "id"))
\* the batched fetch returned a record for every identifier it was asked for
\* the snapshot reads made so far, in order
IsSnapshotRead(call) == call \in {"db.get_top_items(latest)", "db.get_top_items(previous)"}
SnapshotReads == SelectSeq(calls, IsSnapshotRead)
FetchComplete == FetchCalled /\ spotify_items.status = "ok" /\ FetchedIds = Range(item_ids)

\* ------------------------------------------------------------------ claims

\* C1: for every latest item whose identifier is also in previous, with
\* d = previous metric - latest metric, the engine classifies it UP iff d > 0,
\* DOWN iff d < 0 and null iff d = 0.
C1_SignOfDelta ==
    EngineOutput =>
        \A l \in Range(db_top_items_latest) : \A p \in Range(db_top_items_previous) :
            l[IdColumn] = p[IdColumn] =>
                LET d == p[request.comparison_field] - l[request.comparison_field]
                IN  /\ RowsOf(l[IdColumn]) # {}
                    /\ \A i \in RowsOf(l[IdColumn]) :
                        LET c == db_items_data.rows[i].position_change
                        IN  /\ c = UP <=> d > 0
                            /\ c = DOWN <=> d < 0
                            /\ c = None <=> d = 0

C1_Witness ==
    /\ EngineOutput
    /\ \E i, j, k \in DOMAIN db_items_data.rows :
        /\ db_items_data.rows[i].position_change = UP
        /\ db_items_data.rows[j].position_change = DOWN
        /\ db_items_data.rows[k].position_change = None

\* C2: every latest item whose identifier does not occur in previous is
\* classified NEW; with disjoint identifier sets every item of the result is NEW.
C2_AbsentIsNew ==
    EngineOutput =>
        /\ \A id \in LatestIds \ PreviousIds :
            /\ RowsOf(id) # {}
            /\ \A i \in RowsOf(id) : db_items_data.rows[i].position_change = NEW_
        /\ LatestIds \cap PreviousIds = {} =>
            \A i \in DOMAIN db_items_data.rows : db_items_data.rows[i].position_change = NEW_

C2_Witness ==
    /\ EngineOutput
    /\ LatestIds \cap PreviousIds = {}
    /\ Len(db_items_data.rows) >= 2
    /\ \A i \in DOMAIN db_items_data.rows : db_items_data.rows[i].position_change = NEW_

\* C5: with unique identifiers the engine's result has exactly one entry for
\* each identifier of latest and none for an identifier only in previous.
C5_LeftJoin ==
    EngineOutput =>
        /\ IsInjective(Column(db_items_data.rows, IdColumn))
        /\ Range(Column(db_items_data.rows, IdColumn)) = LatestIds

C5_Witness ==
    /\ EngineOutput
    /\ PreviousIds \ LatestIds # {}
    /\ LatestIds \ PreviousIds # {}
    /\ Len(db_items_data.rows) = Cardinality(LatestIds)

\* C3: a RECONCILED artists or tracks response carries each item's position
\* from latest, an item with a smaller position number than in previous is UP
\* and one with a larger number is DOWN; latest = [A at 1, B at 2] with
\* previous = [B at 1, A at 2] answers A (1, UP) then B (2, DOWN) when the
\* metadata fetch returned both records.
C3_EndToEnd ==
    (pc = "done" /\ IsRECONCILED /\ request.item_type \in {ARTIST, TRACK} /\ response.status = "ok") =>
        /\ \A i \in DOMAIN response.items :
            LET item == response.items[i]
            IN  /\ \E l \in Range(db_top_items_latest) :
                        l[IdColumn] = item.id /\ l.position = item.position
                /\ \A p \in Range(db_top_items_previous) :
                        p[IdColumn] = item.id =>
                            /\ item.position < p.position => item.position_change = UP
                            /\ item.position > p.position => item.position_change = DOWN
        /\ ( /\ db_top_items_latest = <<DBRow(request.item_type, "A", 1), DBRow(request.item_type, "B", 2)>>
             /\ db_top_items_previous = <<DBRow(request.item_type, "B", 1), DBRow(request.item_type, "A", 2)>>
             /\ FetchComplete )
           => response.items =
                <<[id |-> "A", name |-> "name_A", position |-> 1, position_change |-> UP],
                  [id |-> "B", name |-> "name_B", position |-> 2, position_change |-> DOWN]>>

C3_Witness ==
    /\ pc = "done" /\ IsRECONCILED /\ request = get_top_artists /\ response.status = "ok"
    /\ db_top_items_latest = <<DBArtist("A", 1), DBArtist("B", 2)>>
    /\ db_top_items_previous = <<DBArtist("B", 1), DBArtist("A", 2)>>
    /\ Column(spotify_items.items, "id") = <<"B", "A">>
    /\ Column(response.items, "id") = <<"A", "B">>
    /\ Column(response.items, "position_change") = <<UP, DOWN>>

\* C4: the response of a RECONCILED request is ordered by the ranking metric
\* of its item type: ascending position for artists and tracks, descending
\* count for genres, descending percentage for emotions.
C4_FinalOrder ==
    (pc = "done" /\ IsRECONCILED) =>
        IF request.item_type \in {ARTIST, TRACK}
        THEN response.status = "ok" => IsAscending(response.items, "position")
        ELSE /\ response.status = "ok"
             /\ IsDescending(response.items, MetricField(request.item_type))

\* C6: whatever order the metadata fetch returns its records in, the
\* enrichment output is as long as its input, holds each input identifier
\* exactly once and is in rank (position) order.
C6_EnrichKeepsRanking ==
    (pc = "create" /\ FetchComplete) =>
        /\ db_items_data.status = "ok"
        /\ Len(db_items_data.rows) = Len(item_ids)
        /\ IsInjective(Column(db_items_data.rows, "id"))
        /\ Range(Column(db_items_data.rows, "id")) = Range(item_ids)
        /\ IsAscending(db_items_data.rows, "position")
        /\ \A i \in DOMAIN db_items_data.rows :
            \E l \in Range(db_top_items_latest) :
                /\ l[IdColumn] = db_items_data.rows[i].id
                /\ l.position = db_items_data.rows[i].position

C6_Witness ==
    /\ pc = "create" /\ FetchComplete
    /\ Len(item_ids) >= 2
    /\ Column(spotify_items.items, "id") # Column(db_items_data.rows, "id")
    /\ Column(spotify_items.items, "id") # item_ids

\* C7: enrichment fails, and returns no list, whenever the batched fetch
\* returns records for only a strict subset of the requested identifiers.
C7_PartialFetchFails ==
    (FetchCalled /\ spotify_items.status = "ok"
        /\ FetchedIds \subseteq Range(item_ids) /\ FetchedIds # Range(item_ids)) =>
        /\ db_items_data.status # "ok"
        /\ pc = "done"
        /\ response.status # "ok"

\* C8: with an empty latest snapshot the request fetches the upstream default
\* top list, returns it, and ends: previous is not read, and neither the
\* engine nor the batched fetch runs.
C8_DefaultReturnsUpstreamList ==
    (pc = "done" /\ IsDEFAULT) =>
        /\ calls = <<"db.get_top_items(latest)", "spotify.get_top_items">>
        /\ response.status = "ok"
        /\ spotify_items.status = "ok"
        /\ Len(response.items) = Len(spotify_items.items)

C10_EngineThenEnrichment ==
    (IsRECONCILED /\ pc \in {"enrich", "create", "done"}) =>
        /\ Len(calls) >= 3 /\ calls[3] = "_add_position_changes_to_db_data"
        /\ \A i \in DOMAIN calls : calls[i] = "spotify.get_several_items_by_ids" =>
                i = 4 /\ request.item_type \in {ARTIST, TRACK}
        /\ (request.item_type \in {ARTIST, TRACK} /\ pc \in {"create", "done"}) => FetchCalled
        /\ request.item_type \in {GENRE, EMOTION} =>
            /\ Len(calls) = 3
            /\ spotify_items = NoResult
            /\ (pc = "done" /\ response.status = "ok") =>
                \A i \in DOMAIN response.items :
                    \E l \in Range(db_top_items_latest) :
                        \A f \in DOMAIN l : response.items[i][f] = l[f]

C10_Witness ==
    /\ pc = "done" /\ IsRECONCILED /\ request.item_type = TRACK /\ response.status = "ok"
    /\ calls = <<"db.get_top_items(latest)", "db.get_top_items(previous)",
                 "_add_position_changes_to_db_data", "spotify.get_several_items_by_ids">>
    /\ Len(response.items) >= 2

\* C11: with the 08:30 Europe/London cutover, the latest collection date is
\* today's date when the current instant is at or after today's cutover and
\* yesterday's date otherwise, and the previous collection date is exactly one
\* calendar day before the latest one.
C11_CollectionWindow ==
    collection_dates # NoDates =>
        LET today == strftime(now)
            at_or_after == now.hour > 8 \/ (now.hour = 8 /\ now.minute >= 30)
        IN  /\ at_or_after => collection_dates.latest = today
            /\ ~at_or_after => NextDay(collection_dates.latest) = today
            /\ NextDay(collection_dates.previous) = collection_dates.latest

C11_Witness ==
    /\ collection_dates # NoDates
    /\ now = datetime(2024, 3, 1, 8, 29)
    /\ collection_dates = CollectionDates([year |-> 2024, month |-> 2, day |-> 29],
                                          [year |-> 2024, month |-> 2, day |-> 28])

\* C12: no step of a top-items request, whatever state it ends in and also
\* when it ends with an error, changes the snapshot store; the request reads
\* the store at most twice, the latest collection date first and the previous
\* one second.
C12_SnapshotStoreReadOnly ==
    /\ [][db' = db]_vars
    /\ [](SnapshotReads \in {<<>>, <<"db.get_top_items(latest)">>,
                             <<"db.get_top_items(latest)", "db.get_top_items(previous)">>})
    /\ [](pc = "done" => SnapshotReads # <<>>)

C12_Witness ==
    /\ pc = "done"
    /\ response.status \notin {"ok", "none"}
    /\ SnapshotReads = <<"db.get_top_items(latest)", "db.get_top_items(previous)">>
    /\ db.latest # {} /\ db.previous # {}

\* C13: a response stored by store_top_items expires at the next 08:30
\* Europe/London cutover after the write, so retrieve_top_items never returns,
\* at or after that cutover, a response stored before it.
C13_ExpiresAtNextCutover ==
    \A u \in UserIds, p \in CachePairs :
        (stored[u, p].stored /\ Retrieved(u, p).found) =>
            WindowOf(stored[u, p].at) = WindowOf(clock)

\* C14: cache entries are separate per (user, item type, time range): after
\* store_top_items(u, items, t, r), and after any later store for another user
\* or another (t, r), retrieve_top_items(u, t, r) returns those items; for a
\* triple never stored it returns nothing.
C14_SeparateEntries ==
    \A u \in UserIds, p \in CachePairs :
        IF stored[u, p].stored
        THEN Retrieved(u, p) = [found |-> TRUE, items |-> stored[u, p].items]
        ELSE Retrieved(u, p) = NoTopItems

\* C14, amended: the same, for a non-empty list of items and while the user's
\* key has not expired; an empty list is stored but reads back as nothing.
C14_SeparateEntriesNonEmpty ==
    \A u \in UserIds, p \in CachePairs :
        IF stored[u, p].stored /\ stored[u, p].items # <<>>
        THEN Retrieved(u, p) = [found |-> TRUE, items |-> stored[u, p].items]
        ELSE Retrieved(u, p) = NoTopItems

C14_Witness ==
    /\ stored["u1", <<ARTIST, SHORT>>].stored
    /\ stored["u1", <<ARTIST, MEDIUM>>].stored
    /\ stored["u1", <<ARTIST, SHORT>>].at < stored["u1", <<ARTIST, MEDIUM>>].at
    /\ stored["u1", <<ARTIST, SHORT>>].items = <<TopItem("A")>>
    /\ stored["u1", <<ARTIST, MEDIUM>>].items = <<TopItem("B")>>
    /\ Retrieved("u1", <<ARTIST, SHORT>>) = [found |-> TRUE, items |-> <<TopItem("A")>>]
    /\ Retrieved("u2", <<ARTIST, SHORT>>) = NoTopItems

\* C15: for two lists whose items start untagged, after add_common_item_tag an
\* item of either list has common = true exactly when its identifier occurs in
\* both lists; the call changes no other field and adds, removes or reorders
\* no item.
C15_CommonTag ==
    \A k \in DOMAIN cmp_tagged :
        LET before == cmp_fetched[k]
            after == cmp_tagged[k]
            both == IdsOf(before.top_items) \cap IdsOf(before.other_top_items)
            Same(b, a) ==
                /\ Len(a) = Len(b)
                /\ \A i \in DOMAIN b :
                    /\ a[i].common = (b[i].id \in both)
                    /\ a[i] = [b[i] EXCEPT !.common = a[i].common]
        IN  /\ Same(before.top_items, after.top_items)
            /\ Same(before.other_top_items, after.other_top_items)

C15_Witness ==
    \E k \in DOMAIN cmp_tagged :
        /\ Column(cmp_fetched[k].top_items, "id") = <<"A", "B">>
        /\ Column(cmp_fetched[k].other_top_items, "id") = <<"B">>
        /\ Column(cmp_tagged[k].top_items, "common") = <<FALSE, TRUE>>
        /\ Column(cmp_tagged[k].other_top_items, "common") = <<TRUE>>

\* C16: get_top_items_for_all_time_ranges returns, for each of the two users,
\* a map with exactly the keys short_term, medium_term and long_term, and the
\* common tags under a time range depend only on the two users' lists of that
\* same time range: an identifier the users share only across different time
\* ranges is not tagged.
C16_PerTimeRange ==
    cmp_result.returned =>
        /\ DOMAIN cmp_result.user_top_items = {"short_term", "medium_term", "long_term"}
        /\ DOMAIN cmp_result.other_user_top_items = {"short_term", "medium_term", "long_term"}
        /\ \A r \in TopItemTimeRange :
            LET mine == cmp_result.user_top_items[r]
                theirs == cmp_result.other_user_top_items[r]
            IN  /\ Column(mine, "id") = Column(FetchedFor(r).top_items, "id")
                /\ Column(theirs, "id") = Column(FetchedFor(r).other_top_items, "id")
                /\ \A i \in DOMAIN mine :
                    mine[i].common = (mine[i].id \in IdsOf(FetchedFor(r).other_top_items))
                /\ \A i \in DOMAIN theirs :
                    theirs[i].common = (theirs[i].id \in IdsOf(FetchedFor(r).top_items))

C16_Witness ==
    /\ cmp_result.returned
    /\ Column(FetchedFor(SHORT).top_items, "id") = <<"A">>
    /\ Column(FetchedFor(SHORT).other_top_items, "id") = <<"B">>
    /\ Column(FetchedFor(MEDIUM).top_items, "id") = <<"B">>
    /\ Column(FetchedFor(MEDIUM).other_top_items, "id") = <<"A">>
    /\ Column(FetchedFor(LONG).top_items, "id") = <<"A", "B">>
    /\ Column(FetchedFor(LONG).other_top_items, "id") = <<"B", "A">>
    /\ Column(cmp_result.user_top_items[SHORT], "common") = <<FALSE>>
    /\ Column(cmp_result.other_user_top_items[MEDIUM], "common") = <<FALSE>>
    /\ Column(cmp_result.user_top_items[LONG], "common") = <<TRUE, TRUE>>

\* C17: a request for a user id that has no row in the user table ends with
\* 404 'User not found', and no token refresh is attempted for it.
C17_UnknownUserNotFound ==
    (auth_pc = "done" /\ AuthCalled("db.get_user") /\ auth_request.user_id \notin spotify_user) =>
        /\ auth_response = HTTPException(404, "User not found")
        /\ ~AuthCalled("spotify.refresh_tokens")

\* C19: the engine fails, and returns no result, when latest contains two
\* entries with the same identifier.
C19_RepeatedIdentifierFails ==
    (EngineRan /\ ~IsInjective(Column(db_top_items_latest, IdColumn))) =>
        /\ pc = "done"
        /\ response.status \notin {"ok", "none"}

\* C20: every public operation hands the engine the ranking metric of its item
\* type (position for artists and tracks, count for genres, percentage for
\* emotions), a field every snapshot entry of that type has, so a RECONCILED
\* genres request computes its deltas on count and completes with a response.
C20_RankingMetric ==
    EngineRan =>
        /\ request.comparison_field = MetricField(request.item_type)
        /\ \A row \in db.latest \cup db.previous : request.comparison_field \in DOMAIN row
        /\ (pc = "done" /\ request.item_type = GENRE) => response.status = "ok"

\* C21: an enrichment call issues exactly one metadata fetch, for the
\* identifiers of all ranked entries (never one fetch per item, never a
\* second attempt), and when that fetch fails the enrichment call and the
\* request fail and no list is returned.
C21_OneBatchedFetch ==
    FetchCalled =>
        /\ Cardinality({i \in DOMAIN calls : calls[i] = "spotify.get_several_items_by_ids"}) = 1
        /\ Len(item_ids) = Len(db_top_items_latest)
        /\ Range(item_ids) = LatestIds
        /\ spotify_items.status # "ok" =>
            /\ pc = "done"
            /\ db_items_data.status # "ok"
            /\ response.status \notin {"ok", "none"}
            /\ response.items = <<>>

C21_Witness ==
    /\ FetchCalled
    /\ Len(item_ids) >= 2
    /\ spotify_items.status = "UpstreamRequestError"
    /\ pc = "done"
    /\ response.status = "UpstreamRequestError"

\* C22: a /me/top/genres or /me/top/emotions request in the RECONCILED state
\* answers with one entry for each item of the latest snapshot and none for an
\* item that is only in the previous snapshot; such an item does not make the
\* request fail.
C22_MeLeftJoin ==
    (MeIsRECONCILED /\ request.item_type \in {GENRE, EMOTION}) =>
        /\ response.status = "ok"
        /\ IsInjective(Column(response.items, IdColumn))
        /\ Range(Column(response.items, IdColumn)) = LatestIds

\* C23: /me/top/artists and /me/top/tracks answer in ascending position order
\* in the LATEST_ONLY and RECONCILED states, whatever order the batched
\* metadata fetch returns its records in.
C23_MeAscendingPosition ==
    ((MeIsLATEST_ONLY \/ MeIsRECONCILED) /\ request.item_type \in {ARTIST, TRACK}
        /\ response.status = "ok") =>
        IsAscending(response.items, "position")

\* C24: UP means the rank improved, for every item type: a genre or emotion
\* whose count or percentage rose from previous to latest is UP and one whose
\* metric fell is DOWN, as an artist or track with a smaller position number
\* now is UP and one with a larger number is DOWN.
C24_UpMeansImproved ==
    (MeIsRECONCILED /\ response.status = "ok") =>
        \A i \in DOMAIN response.items : \A p \in Range(db_top_items_previous) :
            p[IdColumn] = response.items[i][MeResponseId] =>
                LET now_ == response.items[i][request.comparison_field]
                    before == p[request.comparison_field]
                    improved == IF request.item_type \in {ARTIST, TRACK} THEN now_ < before ELSE now_ > before
                    worsened == IF request.item_type \in {ARTIST, TRACK} THEN now_ > before ELSE now_ < before
                IN  /\ improved => response.items[i].position_change = UP
                    /\ worsened => response.items[i].position_change = DOWN

\* C25: after any sequence of store_top_items calls for one user, the user's
\* top-items key carries an expiry: a later store for another (item type, time
\* range) never leaves the key without one.
C25_KeyKeepsExpiry ==
    \A u \in UserIds :
        redis[_get_user_top_items_key(u)] # Nil =>
            redis[_get_user_top_items_key(u)].expire_at # NoExpiry

\* C26: when two store_top_items calls for the same user and different (item
\* type, time range) run concurrently, in every interleaving both lists are
\* retrievable once both calls have returned: no entry is lost.
C26_NoLostStore ==
    (/\ StoresReturned
     /\ tasks[1].user_id = tasks[2].user_id
     /\ <<tasks[1].item_type, tasks[1].time_range>> # <<tasks[2].item_type, tasks[2].time_range>>) =>
        \A i \in TaskIds :
            tasks[i].top_items_to_store # <<>> =>
                Retrieved(tasks[i].user_id, <<tasks[i].item_type, tasks[i].time_range>>)
                    = [found |-> TRUE, items |-> tasks[i].top_items_to_store]

\* C27: the access token always carries its 58-minute expiry: in no reachable
\* state, a failure between the two cache calls of store_access_token and two
\* interleaving stores included, does the token key exist without an expiry,
\* and retrieve_access_token never returns a token stored more than 58 minutes
\* earlier.
C27_TokenAlwaysExpires ==
    \A u \in UserIds :
        /\ redis[_get_access_token_key(u)] # Nil =>
                redis[_get_access_token_key(u)].expire_at # NoExpiry
        /\ retrieve_access_token(redis, clock, u) # Nil =>
                \E i \in TaskIds : \E t \in tasks[i].stored_at :
                    tasks[i].user_id = u /\ clock - t <= TokenMinutes

\* C28: in a cross-user comparison the list for other_user_id is built from
\* that user's own data in every terminal state, DEFAULT included: with a
\* latest snapshot it holds the items of that snapshot, and without one it is
\* the other user's own upstream top list, never the requesting user's.
C28_OtherUsersOwnData ==
    OtherUserCalled =>
        LET other == x_request.other_user_id
            tables == x_db[other]
        IN  IF tables.latest = {}
            THEN /\ x_lists.other_user.status = "ok"
                 /\ Column(x_lists.other_user.items, "id") = x_upstream[AccessTokenOf(other)]
            ELSE x_lists.other_user.status = "ok" =>
                    Column(x_lists.other_user.items, "id")
                        = LatestItemIds(x_request.operation, tables)

\* C29: when get_token signs in a user who had no row before, exactly one
\* message with the user id and the refresh token is sent to the queue; when
\* the user had a row, no message is sent and the stored row is unchanged.
C29_MessageForNewUserOnly ==
    SignedIn =>
        IF HadRow
        THEN si_queue = si_request.queue_before /\ si_users = si_request.users_before
        ELSE si_queue = Append(si_request.queue_before,
                               Message(si_request.user_id, si_request.refresh_token))

\* C30: get_user_id_from_token yields a user id only for a token that decodes;
\* for every token that fails to decode (expired, wrong signature, malformed)
\* the request is answered with HTTP 401 and no protected operation runs.
C30_FailingTokenIs401 ==
    /\ b_ran.ran => Decodes /\ b_ran.user_id = b_token.user_id
    /\ b_pc \in {"resolved", "answered"} =>
        IF Decodes
        THEN b_user_id = [status |-> "ok", user_id |-> b_token.user_id]
        ELSE b_user_id.status = "HTTPException" /\ b_user_id.status_code = 401
====
